---------------------------- MODULE Spec2Model ----------------------------
(***************************************************************************)
(* The "search around" HTTP handler of OpenObserve                          *)
(* (src/handler/http/request/search/around.rs, non-enterprise build).       *)
(*                                                                         *)
(* A request is one call of around().  Its steps are the stretches of code  *)
(* between two suspension points (QUEUE_LOCKER.lock().await, the two        *)
(* SearchService::search(..).await and report_request_usage_stats().await). *)
(* An Option<T> is the empty sequence (None) or a one-element sequence      *)
(* (Some).  A hit is reduced to its _timestamp.  An SQL text is a record of *)
(* its base statement, the filters AND-ed into it and its ORDER BY.         *)
(***************************************************************************)
EXTENDS Integers, Sequences, FiniteSets, TLC

(* ------------------------------ bounds --------------------------------- *)
NumReq == 2
MaxHits == 2
MaxStat == 1
\* longest transform expression, in characters
MaxFnLen == 2
\* number of queue-wait values a timing breakdown can report
MaxWait == 2
MaxVersion == 2
\* number of runs of the export command
MaxExports == 2

(* ------------------------- program constants --------------------------- *)
\* Duration::try_seconds(900).num_microseconds()
HalfWindow == 900000000
\* map_or(10, |v| v.parse::<i64>().unwrap_or(10))
DefaultSize == 10
\* .unwrap_or(0) / None => 0
DefaultKey == 0
\* query.get("timeout").map_or(0, |v| v.parse::<i64>().unwrap_or(0))
DefaultTimeout == 0

\* i64::MAX and i64::MIN, scaled to the 32 bits of the model's integers: the
\* window's 900000000 stays well inside the range, as it does in 64 bits
IntMax == 2147483647
IntMin == -IntMax - 1

Reqs == 1..NumReq

VARIABLES
    env,            \* what this run is given: the active requests and the engine's range
    input,          \* input[r]: the query string of request r
    pc,             \* pc[r]: the suspension point request r is at
    local,          \* local[r]: around()'s locals (around_key, around_size, around_sql, ...)
    calls,          \* calls[r]: the WindowQuerys handed to SearchService::search, in order
    returned,       \* returned[r]: what SearchService::search returned, in order
    resp_forward,   \* resp_forward[r]: Option of the forward search's result
    resp_backward,  \* resp_backward[r]: Option of the backward search's result
    http,           \* http[r]: Option of the value around() returned
    usage,          \* usage[r]: the RequestStats handed to report_request_usage_stats
    metrics,        \* metrics[r]: the status labels handed to http_report_metrics
    augment,        \* augment[r]: the calls of add_new_filters_with_and_operator
    locker,         \* holder of SearchService::QUEUE_LOCKER (0: free)
    pending,        \* the QUERY_PENDING_NUMS gauge of the organization
    table,          \* table[id]: Option of the committed row of the pipeline table
    tx,             \* Option of the open transaction, whose owner holds CLIENT_RW
    last,           \* Option of the SqlitePipelineTable call that returned last
    first_put,      \* first_put[id]: the puts of id that returned Ok (history)
    client_rw,      \* whether a guard of the CLIENT_RW mutex is alive
    schema,         \* whether the pipeline table exists, and which of its indexes
    export,         \* the call of Export::operator: its Cli, locals and return value
    fs              \* the file system: its directories and files

around_vars == <<env, input, pc, local, calls, returned, resp_forward, resp_backward,
                 http, usage, metrics, augment, locker, pending>>

vars == <<env, input, pc, local, calls, returned, resp_forward, resp_backward, http,
          usage, metrics, augment, locker, pending, table, tx, last, first_put,
          client_rw, schema, export, fs>>

(* ------------------------------ helpers -------------------------------- *)
None == <<>>
Some(x) == <<x>>

\* Rust's integer division truncates toward zero
DivTrunc(a, b) ==
    IF a >= 0 THEN a \div b ELSE -((-a) \div b)

RECURSIVE Reverse(_)
Reverse(s) == IF s = <<>> THEN <<>> ELSE Append(Reverse(Tail(s)), Head(s))

RECURSIVE SeqsUpTo(_, _)
SeqsUpTo(S, n) ==
    IF n = 0 THEN {<<>>}
    ELSE LET shorter == SeqsUpTo(S, n - 1)
         IN  shorter \cup {Append(s, x) : s \in shorter, x \in S}

(* --------------------------- request input ----------------------------- *)
\* A query-string value: a text that is a decimal i64 (num) or is not.
NumParam(n) == [num |-> TRUE, val |-> n]
BadParam == [num |-> FALSE, val |-> 0]

\* v.parse::<i64>() : Result<i64, _> as an Option
ParseI64(v) == IF v.num THEN Some(v.val) ELSE None

\* Option::unwrap_or / Result::unwrap_or
UnwrapOr(opt, default) == IF opt = None THEN default ELSE opt[1]

\* let mut around_key = match query.get("key") { Some(v) => v.parse().unwrap_or(0), None => 0 }
ParseKey(query) ==
    IF query.key = None THEN DefaultKey
    ELSE UnwrapOr(ParseI64(query.key[1]), DefaultKey)

\* query.get("size").map_or(10, |v| v.parse::<i64>().unwrap_or(10))
ParseSize(query) ==
    IF query.size = None THEN DefaultSize
    ELSE UnwrapOr(ParseI64(query.size[1]), DefaultSize)

\* format!("SELECT * FROM \"{}\" ", stream_name)
DefaultSql == [base |-> "default", filters |-> {}, order |-> "none"]

\* mutant of ParseTimeout: the window size's default is used for the timeout
ParseTimeout_SizeDefault(query) ==
    IF query.timeout = None THEN DefaultSize
    ELSE UnwrapOr(ParseI64(query.timeout[1]), DefaultSize)

\* query.get("timeout").map_or(0, |v| v.parse::<i64>().unwrap_or(0))
ParseTimeout(query) ==
    IF query.timeout = None THEN DefaultTimeout
    ELSE UnwrapOr(ParseI64(query.timeout[1]), DefaultTimeout)

\* A base64url query-string value: a text that decodes to `text`, or one that
\* does not decode.
Encoded(text) == [valid |-> TRUE, text |-> text]
Undecodable == [valid |-> FALSE]

\* base64::decode_url(v) : Result<String, _> as an Option
DecodeUrl(v) == IF v.valid THEN Some(v.text) ELSE None

\* match query.get("sql") { None => default_sql,
\*     Some(v) => match base64::decode_url(v) { Err(_) => default_sql, Ok(sql) => sql } }
DecodeSql(query) ==
    IF query.sql = None THEN DefaultSql
    ELSE UnwrapOr(DecodeUrl(query.sql[1]), DefaultSql)

\* A transform expression is a sequence of characters.
Whitespace == {" ", "\n"}

RECURSIVE TrimStart(_)
TrimStart(s) ==
    IF s # <<>> /\ Head(s) \in Whitespace THEN TrimStart(Tail(s)) ELSE s

RECURSIVE TrimEnd(_)
TrimEnd(s) ==
    IF s # <<>> /\ s[Len(s)] \in Whitespace THEN TrimEnd(SubSeq(s, 1, Len(s) - 1)) ELSE s

\* str::trim
Trim(s) == TrimEnd(TrimStart(s))

\* str::ends_with(char)
EndsWith(s, c) == s # <<>> /\ s[Len(s)] = c

\* format!("{} \n .", vrl_function)
WithTerminator(vrl_function) == vrl_function \o <<" ", "\n", " ", ".">>

\* mutant of NormalizeFn: the terminator is looked for without trimming
NormalizeFn_Untrimmed(vrl_function) ==
    IF ~EndsWith(vrl_function, ".") THEN WithTerminator(vrl_function) ELSE vrl_function

\* if !vrl_function.trim().ends_with('.') { query_fn = Some(format!("{} \n .", vrl_function)) }
NormalizeFn(vrl_function) ==
    IF ~EndsWith(Trim(vrl_function), ".") THEN WithTerminator(vrl_function)
    ELSE vrl_function

\* query.get("query_fn").and_then(|v| base64::decode_url(v).ok()), normalized
DecodeQueryFn(query) ==
    LET query_fn == IF query.query_fn = None THEN None ELSE DecodeUrl(query.query_fn[1])
    IN  IF query_fn = None THEN None ELSE Some(NormalizeFn(query_fn[1]))

\* A JSON value inside the payload object: null, an integer or a string.
JNull == [t |-> "null", i |-> 0, s |-> ""]
JInt(n) == [t |-> "int", i |-> n, s |-> ""]
JStr(s) == [t |-> "str", i |-> 0, s |-> s]

\* The payload bytes: a text that is not JSON, or the JSON text of a value; the
\* value is null, an array or an object (a function from field names to values).
InvalidJson == [valid |-> FALSE]
JsonBytes(value) == [valid |-> TRUE, value |-> value]
JsonNull == [t |-> "null"]
JsonArray == [t |-> "array"]
JsonObject(fields) == [t |-> "object", fields |-> fields]

\* json::from_slice(&body) : Result<Value, _> as an Option
FromSlice(body) == IF body.valid THEN Some(body.value) ELSE None

\* Value::as_object
AsObject(data) == IF data.t = "object" THEN Some(data.fields) ELSE None

\* Map::get
Get(data, field) == IF field \in DOMAIN data THEN Some(data[field]) ELSE None

\* Value::as_i64
AsI64(value) == IF value.t = "int" THEN Some(value.i) ELSE None

\* Value::is_null
IsNull(value) == value.t = "null"

TIMESTAMP_COL_NAME == "_timestamp"

\* json::from_slice(&body).unwrap_or_default(), then data.as_object()
PayloadObject(body) ==
    IF body = None THEN None
    ELSE AsObject(UnwrapOr(FromSlice(body[1]), JsonNull))

\* mutant of PayloadKey: a payload that is no object resets the pivot
PayloadKey_ResetOnMalformed(around_key, body) ==
    LET data == PayloadObject(body)
    IN  IF data = None THEN (IF body = None THEN around_key ELSE DefaultKey)
        ELSE LET key == Get(data[1], TIMESTAMP_COL_NAME)
             IN  IF key = None THEN around_key ELSE UnwrapOr(AsI64(key[1]), around_key)

\* if let Some(key) = data.get(TIMESTAMP_COL_NAME) {
\*     if let Some(ts) = key.as_i64() { around_key = ts; } }
PayloadKey(around_key, body) ==
    LET data == PayloadObject(body)
    IN  IF data = None THEN around_key
        ELSE LET key == Get(data[1], TIMESTAMP_COL_NAME)
             IN  IF key = None THEN around_key ELSE UnwrapOr(AsI64(key[1]), around_key)

(* ------------------------- external collaborators ---------------------- *)
\* config::DEFAULT_SEARCH_AROUND_FIELDS: the allow-list of filter fields
DEFAULT_SEARCH_AROUND_FIELDS == {"host", "pod"}

\* config::utils::json::get_string_value: a string's content, the JSON text of
\* any other value
GetStringValue(value) == IF value.t = "str" THEN value.s ELSE ToString(value.i)

\* SearchService::sql::add_new_filters_with_and_operator(sql, filters) when it
\* succeeds: each filter AND-ed into the statement's WHERE clause.
AddNewFilters(sql, filters) ==
    [sql EXCEPT !.filters = @ \cup {<<field, filters[field]>> : field \in DOMAIN filters}]

\* SearchService::sql::check_or_add_order_by_timestamp(sql, flag) when it
\* succeeds: the text sorted by timestamp, descending iff the flag is set.
OrderByTimestamp(sql, descending) ==
    [sql EXCEPT !.order = IF descending THEN "desc" ELSE "asc"]

\* infra::errors::Error values SearchService::search can return
SearchErrors ==
    { [variant |-> "ErrorCode", code |-> "SearchCancelQuery", text |-> "cancelled"],
      [variant |-> "ErrorCode", code |-> "SearchSQLExecuteError", text |-> "sql"],
      [variant |-> "Message", code |-> "", text |-> "boom"] }

\* The hits the engine may hand back for a pivot: just before it, on it, just after it.
HitTimes(key) == {key - 1, key, key + 1}

\* config::meta::search::Response values SearchService::search can return
\* The Option<ResponseTook> of a Response: none, or a breakdown whose
\* cluster_wait_queue is one of maxWait values.
TookDetails(maxWait) ==
    {None} \cup {Some([cluster_wait_queue |-> w]) : w \in 0..(maxWait - 1)}

SearchResults(key, maxHits, maxStat, maxWait) ==
    [ hits : SeqsUpTo(HitTimes(key), maxHits),
      scan_size : 0..maxStat,
      took : 0..maxStat,
      cached_ratio : 0..maxStat,
      took_detail : TookDetails(maxWait) ]

(* ------------------------ around(): pure parts ------------------------- *)
\* i64's `-` and `+` of a non-negative b where the build does not check for
\* overflow: the result wraps around the ends of the range
WrappingSub(a, b) ==
    IF a >= IntMin + b THEN a - b ELSE (IntMax - (b - (a - IntMin))) + 1

WrappingAdd(a, b) ==
    IF a <= IntMax - b THEN a + b ELSE (IntMin + (b - (IntMax - a))) - 1

\* the subtraction or the addition of the window leaves the i64 range
Overflows(around_key) ==
    around_key < IntMin + HalfWindow \/ around_key > IntMax - HalfWindow

\* let around_start_time = around_key - Duration::try_seconds(900)...num_microseconds()
AroundStartTime(around_key) == WrappingSub(around_key, HalfWindow)

\* let around_end_time = around_key + Duration::try_seconds(900)...num_microseconds()
AroundEndTime(around_key) == WrappingAdd(around_key, HalfWindow)

\* mutant of FwSql: a failed rewrite falls back to the default statement
FwSql_FallbackDefault(around_sql, rewritten) ==
    IF rewritten THEN OrderByTimestamp(around_sql, FALSE) ELSE DefaultSql

\* check_or_add_order_by_timestamp(&around_sql, false).unwrap_or(around_sql.to_string())
FwSql(around_sql, rewritten) ==
    IF rewritten THEN OrderByTimestamp(around_sql, FALSE) ELSE around_sql

\* check_or_add_order_by_timestamp(&around_sql, true).unwrap_or(around_sql.to_string())
BwSql(around_sql, rewritten) ==
    IF rewritten THEN OrderByTimestamp(around_sql, TRUE) ELSE around_sql

\* mutant of ForwardQuery: the forward search is given the half after the pivot
ForwardQuery_AfterPivot(l, rewritten) ==
    [ sql        |-> FwSql(l.around_sql, rewritten),
      from       |-> 0,
      size       |-> DivTrunc(l.around_size, 2),
      start_time |-> l.around_key,
      end_time   |-> AroundEndTime(l.around_key),
      query_fn   |-> l.query_fn ]

\* the forward config::meta::search::Query
ForwardQuery(l, rewritten) ==
    [ sql        |-> FwSql(l.around_sql, rewritten),
      from       |-> 0,
      size       |-> DivTrunc(l.around_size, 2),
      start_time |-> AroundStartTime(l.around_key),
      end_time   |-> l.around_key,
      query_fn   |-> l.query_fn ]

\* mutant of BackwardQuery: the backward search is given what the forward half left
BackwardQuery_Remainder(l, rewritten) ==
    [ sql        |-> BwSql(l.around_sql, rewritten),
      from       |-> 0,
      size       |-> l.around_size - DivTrunc(l.around_size, 2),
      start_time |-> l.around_key,
      end_time   |-> AroundEndTime(l.around_key),
      query_fn   |-> l.query_fn ]

\* the backward config::meta::search::Query
BackwardQuery(l, rewritten) ==
    [ sql        |-> BwSql(l.around_sql, rewritten),
      from       |-> 0,
      size       |-> DivTrunc(l.around_size, 2),
      start_time |-> l.around_key,
      end_time   |-> AroundEndTime(l.around_key),
      query_fn   |-> l.query_fn ]

\* meta::http::HttpResponse::error_code_with_trace_id(code, Some(trace_id))
ErrorCodeBody(code, trace_id) ==
    [kind |-> "error_code", error |-> code, trace_id |-> Some(trace_id)]

\* meta::http::HttpResponse::error(StatusCode::INTERNAL_SERVER_ERROR.into(), err.to_string())
ErrorBody(status, message) ==
    [kind |-> "error", code |-> status, message |-> message]

\* the match on the forward search's Err(err)
TranslateForward(err, trace_id) ==
    IF err.variant = "ErrorCode"
    THEN IF err.code = "SearchCancelQuery"
         THEN [status |-> 429, body |-> ErrorCodeBody(err.code, trace_id)]
         ELSE [status |-> 500, body |-> ErrorCodeBody(err.code, trace_id)]
    ELSE [status |-> 500, body |-> ErrorBody(500, err.text)]

\* mutant of TranslateBackward: the SearchCancelQuery arm is missing
TranslateBackward_NoCancelArm(err, trace_id) ==
    IF err.variant = "ErrorCode"
    THEN [status |-> 500, body |-> ErrorCodeBody(err.code, trace_id)]
    ELSE [status |-> 500, body |-> ErrorBody(500, err.text)]

\* the match on the backward search's Err(err)
TranslateBackward(err, trace_id) ==
    IF err.variant = "ErrorCode"
    THEN IF err.code = "SearchCancelQuery"
         THEN [status |-> 429, body |-> ErrorCodeBody(err.code, trace_id)]
         ELSE [status |-> 500, body |-> ErrorCodeBody(err.code, trace_id)]
    ELSE [status |-> 500, body |-> ErrorBody(500, err.text)]

\* mutant of MergeHits: the backward hits are pushed in the order they came
MergeHits_NoReverse(forward_hits, backward_hits) ==
    backward_hits \o forward_hits

\* the two push loops of the merge
MergeHits(forward_hits, backward_hits) ==
    Reverse(backward_hits) \o forward_hits

\* mutant of MergeCachedRatio: the quotient is rounded up
MergeCachedRatio_RoundUp(forward_ratio, backward_ratio) ==
    DivTrunc(forward_ratio + backward_ratio + 1, 2)

\* resp.cached_ratio = (resp_forward.cached_ratio + resp_backward.cached_ratio) / 2
MergeCachedRatio(forward_ratio, backward_ratio) ==
    DivTrunc(forward_ratio + backward_ratio, 2)

\* mutant of Merge: resp.size is recomputed from the merged hits
Merge_SizeRecomputed(fw, bw, around_size) ==
    LET hits == MergeHits(fw.hits, bw.hits)
    IN  [ hits         |-> hits,
          total        |-> Len(hits),
          size         |-> Len(hits),
          scan_size    |-> fw.scan_size + bw.scan_size,
          took         |-> fw.took + bw.took,
          cached_ratio |-> MergeCachedRatio(fw.cached_ratio, bw.cached_ratio) ]

\* the merged config::meta::search::Response
Merge(fw, bw, around_size) ==
    LET hits == MergeHits(fw.hits, bw.hits)
    IN  [ hits         |-> hits,
          total        |-> Len(hits),
          size         |-> around_size,
          scan_size    |-> fw.scan_size + bw.scan_size,
          took         |-> fw.took + bw.took,
          cached_ratio |-> MergeCachedRatio(fw.cached_ratio, bw.cached_ratio) ]

\* mutant of TookWaitInQueue: a phase without a breakdown makes the sum absent
TookWaitInQueue_BothOrNone(forward_took, backward_took) ==
    IF forward_took # None /\ backward_took # None
    THEN Some(forward_took[1].cluster_wait_queue + backward_took[1].cluster_wait_queue)
    ELSE None

\* took_wait_in_queue: match (resp_forward.took_detail.as_ref(),
\*                            resp_backward.took_detail.as_ref()) { .. }
TookWaitInQueue(forward_took, backward_took) ==
    CASE forward_took # None /\ backward_took # None ->
            Some(forward_took[1].cluster_wait_queue + backward_took[1].cluster_wait_queue)
      [] forward_took # None /\ backward_took = None ->
            Some(forward_took[1].cluster_wait_queue)
      [] forward_took = None /\ backward_took # None ->
            Some(backward_took[1].cluster_wait_queue)
      [] OTHER -> None

\* mutant of UsageRecord: the transform flag is set whatever the request holds
UsageRecord_FnAlways(resp, req, l, trace_id, forward, backward) ==
    [ records      |-> Len(resp.hits),
      size         |-> resp.scan_size,
      request_body |-> Some(req.sql),
      min_ts       |-> Some(AroundStartTime(l.around_key)),
      max_ts       |-> Some(AroundEndTime(l.around_key)),
      cached_ratio |-> Some(resp.cached_ratio),
      trace_id     |-> Some(trace_id),
      took_wait_in_queue |-> TookWaitInQueue(forward.took_detail, backward.took_detail),
      num_fn       |-> 1 ]

\* mutant of UsageRecord: the SQL text recorded is the one before the rewrite
UsageRecord_UnorderedSql(resp, req, l, trace_id, forward, backward) ==
    [ records      |-> Len(resp.hits),
      size         |-> resp.scan_size,
      request_body |-> Some(l.around_sql),
      min_ts       |-> Some(AroundStartTime(l.around_key)),
      max_ts       |-> Some(AroundEndTime(l.around_key)),
      cached_ratio |-> Some(resp.cached_ratio),
      trace_id     |-> Some(trace_id),
      took_wait_in_queue |-> TookWaitInQueue(forward.took_detail, backward.took_detail),
      num_fn       |-> IF req.query_fn = None THEN 0 ELSE 1 ]

\* the RequestStats handed to report_request_usage_stats, with num_fn
UsageRecord(resp, req, l, trace_id, forward, backward) ==
    [ records      |-> Len(resp.hits),
      size         |-> resp.scan_size,
      request_body |-> Some(req.sql),
      min_ts       |-> Some(AroundStartTime(l.around_key)),
      max_ts       |-> Some(AroundEndTime(l.around_key)),
      cached_ratio |-> Some(resp.cached_ratio),
      trace_id     |-> Some(trace_id),
      took_wait_in_queue |-> TookWaitInQueue(forward.took_detail, backward.took_detail),
      num_fn       |-> IF req.query_fn = None THEN 0 ELSE 1 ]

(* -------------------------- the pipeline table ------------------------- *)
\* A Pipeline is its id, its version (standing for every scalar column: version,
\* enabled, name, description, nodes, edges), its org and its source. The stream
\* parameters of a realtime source are one value (org_id, stream_name and
\* stream_type), kept in one column.
PipelineIds == {"p1", "p2"}
Versions == 1..MaxVersion
Realtime(stream_params) == [source_type |-> "realtime", params |-> stream_params]
Scheduled(derived_stream) == [source_type |-> "scheduled", params |-> derived_stream]
\* stream "s1" belongs to organization "o1", stream "s2" to "o2"
StreamParams == {"s1", "s2"}
org_id(stream_params) == IF stream_params = "s1" THEN "o1" ELSE "o2"
PipelineSources == {Realtime(s) : s \in StreamParams} \cup {Scheduled("d1")}
\* every pipeline of "p1", and one of "p2" to stand for the other rows
Pipelines ==
    [id : {"p1"}, version : Versions, org : {"o1"}, source : PipelineSources]
        \cup [id : {"p2"}, version : {1}, org : {"o2"}, source : {Realtime("s2")}]

\* the columns INSERT binds: a realtime source fills the stream columns, a
\* scheduled one fills derived_stream, the other stays NULL
InsertedRow(pipeline) ==
    [ id             |-> pipeline.id,
      version        |-> pipeline.version,
      org            |-> pipeline.org,
      source_type    |-> pipeline.source.source_type,
      stream_name    |-> IF pipeline.source.source_type = "realtime"
                         THEN Some(pipeline.source.params) ELSE None,
      derived_stream |-> IF pipeline.source.source_type = "scheduled"
                         THEN Some(pipeline.source.params) ELSE None ]

\* the columns UPDATE sets: the columns of the other source keep their value
UpdatedRow(row, pipeline) ==
    IF pipeline.source.source_type = "realtime"
    THEN [row EXCEPT !.version = pipeline.version,
                     !.org = pipeline.org,
                     !.source_type = "realtime",
                     !.stream_name = Some(pipeline.source.params)]
    ELSE [row EXCEPT !.version = pipeline.version,
                     !.org = pipeline.org,
                     !.source_type = "scheduled",
                     !.derived_stream = Some(pipeline.source.params)]

\* query_as::<_, Pipeline>: the source is read from the columns source_type names
FromRow(row) ==
    [ id      |-> row.id,
      version |-> row.version,
      org     |-> row.org,
      source  |-> IF row.source_type = "realtime"
                  THEN Realtime(row.stream_name[1])
                  ELSE Scheduled(row.derived_stream[1]) ]

NoRows == [id \in PipelineIds |-> None]

\* INSERT ... ON CONFLICT DO NOTHING: id is the primary key
Insert_OrReplace(rows, pipeline) ==
    [rows EXCEPT ![pipeline.id] = Some(InsertedRow(pipeline))]

Insert(rows, pipeline) ==
    IF rows[pipeline.id] # None THEN rows
    ELSE [rows EXCEPT ![pipeline.id] = Some(InsertedRow(pipeline))]

\* UPDATE pipeline SET ... WHERE id = $n
UpdateWhereId_Upsert(rows, pipeline) ==
    IF rows[pipeline.id] = None
    THEN [rows EXCEPT ![pipeline.id] = Some(InsertedRow(pipeline))]
    ELSE [rows EXCEPT ![pipeline.id] = Some(UpdatedRow(rows[pipeline.id][1], pipeline))]

UpdateWhereId(rows, pipeline) ==
    IF rows[pipeline.id] = None THEN rows
    ELSE [rows EXCEPT ![pipeline.id] = Some(UpdatedRow(rows[pipeline.id][1], pipeline))]

\* DELETE FROM pipeline WHERE id = $1
DeleteWhereId_EveryRow(rows, pipeline_id) == [id \in DOMAIN rows |-> None]

DeleteWhereId(rows, pipeline_id) == [rows EXCEPT ![pipeline_id] = None]

\* what a call returns: Ok(()), Ok(pipeline) or Err
Ok(value) == [ok |-> TRUE, value |-> value, err |-> ""]
Err(kind) == [ok |-> FALSE, value |-> None, err |-> kind]

\* SELECT * FROM pipeline WHERE id = $1, fetch_one, through CLIENT_RO: it reads
\* the committed rows whoever holds CLIENT_RW
KeyNotExists(key) == "KeyNotExists(" \o key \o ")"

get_by_id(rows, pipeline_id) ==
    IF rows[pipeline_id] = None THEN Err(KeyNotExists(pipeline_id))
    ELSE Ok(Some(FromRow(rows[pipeline_id][1])))

\* WHERE source_type = 'realtime' AND stream_org = .. AND stream_name = .. AND
\* stream_type = ..
SameSourceStream_AnySourceType(row, stream_params) ==
    row.stream_name = Some(stream_params)

SameSourceStream(row, stream_params) ==
    /\ row.source_type = "realtime"
    /\ row.stream_name = Some(stream_params)

\* fetch_one: the first row the query yields, whichever that is, or RowNotFound
FetchOne(rows, ids) ==
    IF ids = {} THEN {Err("RowNotFound")}
    ELSE {Ok(Some(FromRow(rows[id][1]))) : id \in ids}

\* every value get_by_stream can return: its query also asks for org = org_id
get_by_stream(rows, stream_params) ==
    FetchOne(rows, {id \in PipelineIds :
                       /\ rows[id] # None
                       /\ rows[id][1].org = org_id(stream_params)
                       /\ SameSourceStream(rows[id][1], stream_params)})

\* every value get_with_same_source_stream can return
get_with_same_source_stream(rows, pipeline) ==
    IF pipeline.source.source_type = "scheduled" THEN {Err(KeyNotExists(""))}
    ELSE FetchOne(rows, {id \in PipelineIds :
                            /\ rows[id] # None
                            /\ SameSourceStream(rows[id][1], pipeline.source.params)})

\* what the table holds once the transaction is over
Rollback(rows, staged) == rows

CommitFailed_Applied(rows, staged) == staged

CommitFailed(rows, staged) == rows

Committed(rows, staged) == staged

\* the indexes create_table_index creates
PipelineIndexes == <<"pipeline_org_idx", "pipeline_org_src_type_stream_params_idx">>

IndexSet(n) == {PipelineIndexes[i] : i \in 1..n}

\* the guard of CLIENT_RW once the call has returned: it was dropped, by
\* drop(client) or at the end of the scope, whatever the call returned
ReleaseLock_OnlyOnOk(result) == ~result.ok

ReleaseLock(result) == FALSE

\* the store after create_table and create_table_index have run
InitStore ==
    /\ client_rw = FALSE
    /\ schema = [table |-> TRUE, indexes |-> IndexSet(2)]
    /\ table = NoRows
    /\ tx = None
    /\ last = None
    /\ first_put = [id \in PipelineIds |-> [pipeline |-> None, intervened |-> FALSE]]

(* ---------------------------- the CLI export --------------------------- *)
\* the Cli fields operator reads: file_type and the data directory
FileTypes == {"json", "csv"}
DataPaths == {"data", "data/out"}
Clis == [file_type : FileTypes, data : DataPaths]

\* what get_search_type_from_request returns: Ok(None), Ok(Some(_)) or Err
SearchTypes == {Ok(None), Ok(Some("ui")), Err("InvalidSearchType")}

\* c.file_type != "json"
FileTypeImplemented_Any(file_type) == TRUE

FileTypeImplemented(file_type) == file_type = "json"

\* the directories of a path, itself included, outermost first
Components(path) == IF path = "data/out" THEN <<"data", "data/out">> ELSE <<path>>

\* fs::create_dir_all: every missing component is created, outermost first; n is
\* the number of components it got to
CreateDirAll(dirs, path, n) == dirs \cup {Components(path)[i] : i \in 1..n}

\* chrono::Local::now().timestamp_micros() when the file is named
Timestamps == {1, 2}

\* format!("{}.{}", now, c.file_type)
FileName(now, file_type) == ToString(now) \o "." \o file_type

\* fs::File::create: the file is created empty, or truncated if it exists
FileCreate(files, dir, name) ==
    {f \in files : ~(f.dir = dir /\ f.name = name)}
        \cup {[dir |-> dir, name |-> name, written |-> "nothing", hits |-> <<>>]}

\* serde_json::to_writer_pretty(file, &res.hits): all of the hits, or on Err
\* some part of their text
ToWriterPretty(files, dir, name, hits, complete) ==
    {f \in files : ~(f.dir = dir /\ f.name = name)}
        \cup {[dir |-> dir, name |-> name,
                written |-> IF complete THEN "all" ELSE "part", hits |-> hits]}

NoCli == [file_type |-> "", data |-> ""]

InitExport ==
    /\ export = [pc |-> "idle", runs |-> 0, c |-> NoCli, search_type |-> Ok(None),
                 res |-> None, result |-> None]
    /\ fs = [dirs |-> {}, files |-> {}]

(* --------------------------- the state machine ------------------------- *)
\* around()'s locals before the call
NoLocals ==
    [ around_key |-> 0, around_size |-> 0, around_sql |-> DefaultSql,
      query_fn |-> None, timeout |-> 0, req |-> None, resp |-> None ]

NoInput ==
    [ trace_id |-> 0, key |-> None, size |-> None, timeout |-> None, sql |-> None,
      query_fn |-> None, body |-> None ]

\* the requests a run can receive: an absent, unparsable or numeric key and size
Keys == {None, Some(BadParam), Some(NumParam(1000000000))}
Sizes == {None, Some(BadParam)} \cup {Some(NumParam(n)) : n \in {-3, 0, 2, 5}}

\* query strings with a key and a size and nothing else, and no payload
KeyAndSize(keys, sizes) ==
    [ key : keys, size : sizes, timeout : {None}, sql : {None}, query_fn : {None},
      body : {None} ]

InitWith(reqs, maxHits, maxStat, maxWait, inputs) ==
    /\ env \in [ reqs : {reqs}, hits : {maxHits}, stat : {maxStat}, wait : {maxWait},
                 feature_query_queue_enabled : BOOLEAN ]
    /\ \E given \in [reqs -> inputs] :
          input = [r \in Reqs |-> IF r \in reqs THEN [trace_id |-> r] @@ given[r]
                                  ELSE NoInput]
    /\ pc = [r \in Reqs |-> "idle"]
    /\ local = [r \in Reqs |-> NoLocals]
    /\ calls = [r \in Reqs |-> <<>>]
    /\ returned = [r \in Reqs |-> <<>>]
    /\ resp_forward = [r \in Reqs |-> None]
    /\ resp_backward = [r \in Reqs |-> None]
    /\ http = [r \in Reqs |-> None]
    /\ usage = [r \in Reqs |-> <<>>]
    /\ metrics = [r \in Reqs |-> <<>>]
    /\ augment = [r \in Reqs |-> <<>>]
    /\ locker = 0
    /\ pending = 0
    /\ InitStore
    /\ InitExport

\* one request, every key and size, hit sequences up to MaxHits
Init == InitWith({1}, MaxHits, 0, 0, KeyAndSize(Keys, Sizes))

\* an entry of `returned`: the phase, and the error (NoError for Ok)
NoError == [variant |-> "", code |-> "", text |-> ""]
Returned(phase, err) == [phase |-> phase, ok |-> (err = NoError), err |-> err]

\* hit sequences up to one hit, every scan size, elapsed time and cache ratio up to MaxStat
InitStats ==
    InitWith({1}, 1, MaxStat, 0,
             KeyAndSize({Some(NumParam(1000000000))}, {None, Some(NumParam(5))}))

\* every request at once, throttle on or off, an engine that returns no hits
InitGate ==
    InitWith(Reqs, 0, 0, 0, KeyAndSize({Some(NumParam(1000000000))}, {None}))

\* one request, an engine that returns no hits and every timing breakdown
InitUsage ==
    InitWith({1}, 0, 0, MaxWait,
             KeyAndSize({Some(NumParam(1000000000))}, {None, Some(NumParam(5))}))

\* the query-string values and payloads the Query Context Builder is given
Timeouts == {None, Some(BadParam), Some(NumParam(7))}
CustomSql == [base |-> "custom", filters |-> {}, order |-> "none"]
Sqls == {None, Some(Undecodable), Some(Encoded(CustomSql))}
QueryFns ==
    {None, Some(Undecodable)} \cup {Some(Encoded(fn)) : fn \in SeqsUpTo({"a", ".", " "}, MaxFnLen)}
PayloadFields == {TIMESTAMP_COL_NAME, "level"} \cup DEFAULT_SEARCH_AROUND_FIELDS
PayloadValues == {JNull, JInt(1000000500), JStr("h1")}
PayloadObjects ==
    UNION {[fields -> PayloadValues] : fields \in SUBSET PayloadFields}
Bodies ==
    {None, Some(InvalidJson), Some(JsonBytes(JsonNull)), Some(JsonBytes(JsonArray))}
        \cup {Some(JsonBytes(JsonObject(data))) : data \in PayloadObjects}

\* one request and an engine that returns no hits; the request has a key, an sql
\* and a payload, or a key, a size, a timeout, an sql and a transform expression
InitBuilder ==
    InitWith({1}, 0, 0, 0,
             [ key : {None, Some(NumParam(1000000000))}, size : {None},
               timeout : {None}, sql : Sqls, query_fn : {None}, body : Bodies ]
             \cup
             [ key : Keys, size : {None, Some(BadParam), Some(NumParam(5))},
               timeout : Timeouts, sql : {None, Some(Undecodable)}, query_fn : QueryFns,
               body : {None} ])

\* the pivot keys at and next to the ends of the i64 range and of the range in
\* which the window fits
EdgeKeys ==
    { IntMin, IntMin + HalfWindow - 1, IntMin + HalfWindow, -1, 0, 1000000000,
      IntMax - HalfWindow, IntMax - HalfWindow + 1, IntMax }

\* one request and an engine that returns no hits; the pivot key is an edge key
\* of the query string or of the payload
InitWindow ==
    InitWith({1}, 0, 0, 0,
             [ key : {None} \cup {Some(NumParam(k)) : k \in EdgeKeys}, size : {None},
               timeout : {None}, sql : {None}, query_fn : {None}, body : {None} ]
             \cup
             [ key : {None, Some(NumParam(0))}, size : {None}, timeout : {None},
               sql : {None}, query_fn : {None},
               body : { Some(JsonBytes(JsonObject([f \in {TIMESTAMP_COL_NAME} |-> JInt(k)]))) :
                          k \in EdgeKeys } ])

\* mutant of DropGuard: the lock stays taken when around() ends
DropGuard_Leaked(r) == locker

\* the MutexGuard `locker` is dropped when around() returns or its future is
\* dropped, if it still holds it
DropGuard(r) == IF locker = r THEN 0 ELSE locker

\* mutant of HeldGuard: the guard is dropped whatever the flag says
HeldGuard_AlwaysDropped(r) == 0

\* mutant of HeldGuard: the guard is kept whatever the flag says
HeldGuard_NeverDropped(r) == r

\* the holder of the lock after
\* `if !config::get_config().common.feature_query_queue_enabled { drop(locker); }`
HeldGuard(r) == IF env.feature_query_queue_enabled THEN r ELSE 0

\* mutant of Filters: a null value is turned into a filter like any other
Filters_NullKept(body) ==
    LET data == PayloadObject(body)
    IN  IF data = None THEN <<>>
        ELSE [ field \in DEFAULT_SEARCH_AROUND_FIELDS \cap DOMAIN data[1]
                 |-> GetStringValue(data[1][field]) ]

\* for field in DEFAULT_SEARCH_AROUND_FIELDS.iter() { if let Some(value) = data.get(field) {
\*     if value.is_null() { continue; }
\*     filters.insert(field.to_string(), get_string_value(value)); } }
\* The HashMap is a function from the inserted fields to their strings.
Filters(body) ==
    LET data == PayloadObject(body)
    IN  IF data = None THEN <<>>
        ELSE [ field \in {f \in DEFAULT_SEARCH_AROUND_FIELDS :
                             Get(data[1], f) # None /\ ~IsNull(data[1][f])}
                 |-> GetStringValue(data[1][field]) ]

\* mutant of AugmentCalls: the collaborator is called whatever the filters are
AugmentCalls_Unconditional(sql, filters) == <<[sql |-> sql, filters |-> filters]>>

\* if !filters.is_empty() { add_new_filters_with_and_operator(&around_sql, filters) }:
\* the calls of the collaborator this statement makes
AugmentCalls(sql, filters) ==
    IF DOMAIN filters = {} THEN <<>> ELSE <<[sql |-> sql, filters |-> filters]>>

\* around() up to QUEUE_LOCKER.lock().await.  aug_ok is the outcome of
\* add_new_filters_with_and_operator where it is called: on Err the `?` returns
\* the request error before the gauge is touched.
Start(r) ==
    /\ r \in env.reqs
    /\ pc[r] = "idle"
    /\ \E aug_ok \in BOOLEAN :
          LET query      == input[r]
              around_key == PayloadKey(ParseKey(query), query.body)
              query_fn   == DecodeQueryFn(query)
              sql        == DecodeSql(query)
              filters    == Filters(query.body)
              augmented  == AugmentCalls(sql, filters)
              failed     == augmented # <<>> /\ ~aug_ok
              around_sql == IF augmented = <<>> THEN sql ELSE AddNewFilters(sql, filters)
          IN  /\ augmented = <<>> => aug_ok
              /\ augment' = [augment EXCEPT ![r] =
                                IF augmented = <<>> THEN @
                                ELSE Append(@, augmented[1] @@ [ok |-> aug_ok])]
              /\ local' = IF failed THEN local
                          ELSE [local EXCEPT ![r] =
                                   [ @ EXCEPT !.around_key = around_key,
                                              !.around_size = ParseSize(query),
                                              !.around_sql = around_sql,
                                              !.query_fn = query_fn ]]
              /\ pending' = IF failed THEN pending ELSE pending + 1
              /\ pc' = [pc EXCEPT ![r] = IF failed THEN "failed" ELSE "lock"]
    /\ UNCHANGED <<table, tx, last, first_put, client_rw, schema, export, fs, env, input, calls, returned, resp_forward, resp_backward, http,
                   usage, metrics, locker>>

\* mutant of GaugeDec: the gauge is left as it is once the lock is acquired
GaugeDec_Skipped(gauge) == gauge

\* metrics::QUERY_PENDING_NUMS.with_label_values(&[&org_id]).dec()
GaugeDec(gauge) == gauge - 1

\* mutant of SearchForward: both searches are dispatched at once
SearchForward_BothDispatched(r) ==
    /\ pc[r] = "lock"
    /\ locker = 0
    /\ \E rewritten \in BOOLEAN :
          LET req == ForwardQuery(local[r], rewritten)
              bw  == BackwardQuery(local[r], rewritten)
          IN  /\ local' = [local EXCEPT ![r].req = Some(req),
                                        ![r].timeout = ParseTimeout(input[r])]
              /\ calls' = [calls EXCEPT ![r] =
                              @ \o << [ phase |-> "forward", query |-> req,
                                        timeout |-> ParseTimeout(input[r]) ],
                                      [ phase |-> "backward", query |-> bw,
                                        timeout |-> ParseTimeout(input[r]) ] >>]
    /\ locker' = HeldGuard(r)
    /\ pending' = GaugeDec(pending)
    /\ pc' = [pc EXCEPT ![r] = "forward"]
    /\ UNCHANGED <<table, tx, last, first_put, client_rw, schema, export, fs, env, input, returned, resp_forward, resp_backward, http, usage,
                   metrics, augment>>

\* from the lock's acquisition to the forward SearchService::search(..).await.
\* Where around_key -/+ 900 s leaves the i64 range the build decides: with
\* overflow checks the subtraction or the addition panics (the guard is dropped
\* by the unwinding and around() returns nothing), without them it wraps.
SearchForward(r) ==
    /\ pc[r] = "lock"
    /\ locker = 0
    /\ \E rewritten \in BOOLEAN, panics \in BOOLEAN :
          LET req == ForwardQuery(local[r], rewritten)
          IN  /\ panics => (Overflows(local[r].around_key) /\ rewritten)
              /\ local' = IF panics THEN local
                          ELSE [local EXCEPT ![r].req = Some(req),
                                             ![r].timeout = ParseTimeout(input[r])]
              /\ calls' = IF panics THEN calls
                          ELSE [calls EXCEPT ![r] =
                                  Append(@, [ phase |-> "forward", query |-> req,
                                              timeout |-> ParseTimeout(input[r]) ])]
              /\ locker' = IF panics THEN locker ELSE HeldGuard(r)
              /\ pc' = [pc EXCEPT ![r] = IF panics THEN "panicked" ELSE "forward"]
    /\ pending' = GaugeDec(pending)
    /\ UNCHANGED <<table, tx, last, first_put, client_rw, schema, export, fs, env, input, returned, resp_forward, resp_backward, http, usage,
                   metrics, augment>>

\* the forward search returned Ok(res): up to the backward SearchService::search(..).await
ForwardOk(r) ==
    /\ pc[r] = "forward"
    /\ \E res \in SearchResults(local[r].around_key, env.hits, env.stat, env.wait), rewritten \in BOOLEAN :
          LET req == BackwardQuery(local[r], rewritten)
          IN  /\ resp_forward' = [resp_forward EXCEPT ![r] = Some(res)]
              /\ local' = [local EXCEPT ![r].req = Some(req)]
              /\ calls' = [calls EXCEPT ![r] =
                              Append(@, [ phase |-> "backward", query |-> req,
                                          timeout |-> local[r].timeout ])]
    /\ returned' = [returned EXCEPT ![r] = Append(@, Returned("forward", NoError))]
    /\ pc' = [pc EXCEPT ![r] = "backward"]
    /\ UNCHANGED <<table, tx, last, first_put, client_rw, schema, export, fs, env, input, resp_backward, http, usage, metrics, locker, pending, augment>>

\* mutant of ForwardErr: the error is logged but not returned, and the backward
\* search is dispatched all the same
ForwardErr_FallThrough(r) ==
    /\ pc[r] = "forward"
    /\ \E err \in SearchErrors, res \in SearchResults(local[r].around_key, 0, 0, 0) :
          LET req == BackwardQuery(local[r], TRUE)
          IN  /\ returned' = [returned EXCEPT ![r] = Append(@, Returned("forward", err))]
              /\ resp_forward' = [resp_forward EXCEPT ![r] = Some(res)]
              /\ local' = [local EXCEPT ![r].req = Some(req)]
              /\ calls' = [calls EXCEPT ![r] =
                              Append(@, [ phase |-> "backward", query |-> req,
                                          timeout |-> local[r].timeout ])]
    /\ metrics' = [metrics EXCEPT ![r] = Append(@, "500")]
    /\ pc' = [pc EXCEPT ![r] = "backward"]
    /\ UNCHANGED <<table, tx, last, first_put, client_rw, schema, export, fs, env, input, resp_backward, http, usage, locker, pending, augment>>

\* the forward search returned Err(err): metric, translation, return
ForwardErr(r) ==
    /\ pc[r] = "forward"
    /\ \E err \in SearchErrors :
          /\ http' = [http EXCEPT ![r] = Some(TranslateForward(err, input[r].trace_id))]
          /\ returned' = [returned EXCEPT ![r] = Append(@, Returned("forward", err))]
    /\ metrics' = [metrics EXCEPT ![r] = Append(@, "500")]
    /\ locker' = DropGuard(r)
    /\ pc' = [pc EXCEPT ![r] = "done"]
    /\ UNCHANGED <<table, tx, last, first_put, client_rw, schema, export, fs, env, input, local, calls, resp_forward, resp_backward, usage, pending, augment>>

\* the backward search returned Ok(res): merge, up to report_request_usage_stats(..).await
BackwardOk(r) ==
    /\ pc[r] = "backward"
    /\ \E res \in SearchResults(local[r].around_key, env.hits, env.stat, env.wait) :
          /\ resp_backward' = [resp_backward EXCEPT ![r] = Some(res)]
          /\ local' = [local EXCEPT ![r].resp =
                          Some(Merge(resp_forward[r][1], res, local[r].around_size))]
    /\ returned' = [returned EXCEPT ![r] = Append(@, Returned("backward", NoError))]
    /\ metrics' = [metrics EXCEPT ![r] = Append(@, "200")]
    /\ pc' = [pc EXCEPT ![r] = "report"]
    /\ UNCHANGED <<table, tx, last, first_put, client_rw, schema, export, fs, env, input, calls, resp_forward, http, usage, locker, pending, augment>>

\* mutant of BackwardErr: the forward hits are returned as a partial window
BackwardErr_PartialWindow(r) ==
    /\ pc[r] = "backward"
    /\ \E err \in SearchErrors :
          /\ http' = [http EXCEPT ![r] =
                         Some([status |-> 200,
                               body |-> Merge(resp_forward[r][1],
                                              [resp_forward[r][1] EXCEPT !.hits = <<>>],
                                              local[r].around_size)])]
          /\ returned' = [returned EXCEPT ![r] = Append(@, Returned("backward", err))]
    /\ metrics' = [metrics EXCEPT ![r] = Append(@, "500")]
    /\ locker' = DropGuard(r)
    /\ pc' = [pc EXCEPT ![r] = "done"]
    /\ UNCHANGED <<table, tx, last, first_put, client_rw, schema, export, fs, env, input, local, calls, resp_forward, resp_backward, usage, pending, augment>>

\* the backward search returned Err(err): metric, translation, return
BackwardErr(r) ==
    /\ pc[r] = "backward"
    /\ \E err \in SearchErrors :
          /\ http' = [http EXCEPT ![r] = Some(TranslateBackward(err, input[r].trace_id))]
          /\ returned' = [returned EXCEPT ![r] = Append(@, Returned("backward", err))]
    /\ metrics' = [metrics EXCEPT ![r] = Append(@, "500")]
    /\ locker' = DropGuard(r)
    /\ pc' = [pc EXCEPT ![r] = "done"]
    /\ UNCHANGED <<table, tx, last, first_put, client_rw, schema, export, fs, env, input, local, calls, resp_forward, resp_backward, usage, pending, augment>>

\* mutant of ReportUsage: the response is returned without a usage record
ReportUsage_NotEmitted(r) ==
    /\ pc[r] = "report"
    /\ http' = [http EXCEPT ![r] = Some([status |-> 200, body |-> local[r].resp[1]])]
    /\ locker' = DropGuard(r)
    /\ pc' = [pc EXCEPT ![r] = "done"]
    /\ UNCHANGED <<table, tx, last, first_put, client_rw, schema, export, fs, env, input, local, calls, returned, resp_forward, resp_backward,
                   usage, metrics, pending, augment>>

\* report_request_usage_stats takes the record and returns: Ok(HttpResponse::Ok().json(resp))
ReportUsage(r) ==
    /\ pc[r] = "report"
    /\ usage' = [usage EXCEPT ![r] =
                    Append(@, UsageRecord(local[r].resp[1], local[r].req[1], local[r],
                                          input[r].trace_id, resp_forward[r][1],
                                          resp_backward[r][1]))]
    /\ http' = [http EXCEPT ![r] = Some([status |-> 200, body |-> local[r].resp[1]])]
    /\ locker' = DropGuard(r)
    /\ pc' = [pc EXCEPT ![r] = "done"]
    /\ UNCHANGED <<table, tx, last, first_put, client_rw, schema, export, fs, env, input, local, calls, returned, resp_forward, resp_backward,
                   metrics, pending, augment>>

\* the caller drops around()'s future while it is suspended at one of its awaits
\* (at lock().await only while another request holds the lock): the locals are
\* dropped, the guard with them, and nothing after the await runs
Cancel(r) ==
    /\ pc[r] \in {"lock", "forward", "backward", "report"}
    /\ pc[r] = "lock" => locker \notin {0, r}
    /\ locker' = DropGuard(r)
    /\ pc' = [pc EXCEPT ![r] = "cancelled"]
    /\ UNCHANGED <<table, tx, last, first_put, client_rw, schema, export, fs, env, input, local, calls, returned, resp_forward, resp_backward,
                   http, usage, metrics, pending, augment>>

Next ==
    \E r \in Reqs :
        \/ Start(r)
        \/ SearchForward(r)
        \/ ForwardOk(r)
        \/ ForwardErr(r)
        \/ BackwardOk(r)
        \/ BackwardErr(r)
        \/ ReportUsage(r)
        \/ Cancel(r)

Spec == Init /\ [][Next]_vars

SpecStats == InitStats /\ [][Next]_vars

SpecGate == InitGate /\ [][Next]_vars

SpecBuilder == InitBuilder /\ [][Next]_vars

SpecUsage == InitUsage /\ [][Next]_vars

SpecWindow == InitWindow /\ [][Next]_vars

\* What the runtime and the collaborators give a request that is not dropped:
\* an engine call returns, Ok or Err; the usage sink returns; and the lock, a
\* fair (first come, first served) tokio Mutex, is handed to a task that keeps
\* waiting for it.
Fairness ==
    \A r \in Reqs :
        /\ WF_vars(Start(r))
        /\ SF_vars(SearchForward(r))
        /\ WF_vars(ForwardOk(r) \/ ForwardErr(r))
        /\ WF_vars(BackwardOk(r) \/ BackwardErr(r))
        /\ WF_vars(ReportUsage(r))

\* every request at once, with the throttle on
InitLive == InitGate /\ env.feature_query_queue_enabled

SpecLive == InitLive /\ [][Next]_vars /\ Fairness

(* ----------------------- SqlitePipelineTable calls --------------------- *)
\* the record of a call that returned: where it ended, what it returned, and
\* whether its transaction held a change when it ended
Return(t, phase, result) ==
    Some([ op |-> t.op, id |-> t.id, pipeline |-> t.pipeline, phase |-> phase,
           result |-> result, dirty |-> (t.staged # t.before) ])

\* the puts of each id: the first that returned Ok while no row was stored, and
\* whether a committed update has changed the row since; a delete starts afresh
History(h, t) ==
    CASE t.op = "put" ->
            IF h[t.id].pipeline = None /\ ~h[t.id].intervened
            THEN [h EXCEPT ![t.id].pipeline = t.pipeline]
            ELSE h
      [] t.op = "update" ->
            IF t.before[t.id] # None THEN [h EXCEPT ![t.id].intervened = TRUE] ELSE h
      [] OTHER -> [h EXCEPT ![t.id] = [pipeline |-> None, intervened |-> FALSE]]

\* client.begin().await?: the transaction starts from the committed rows
Begin(op, pipeline_id, pipeline) ==
    \E begins \in BOOLEAN :
        LET t == [ op |-> op, id |-> pipeline_id, pipeline |-> pipeline,
                   phase |-> "execute", fetched |-> None,
                   before |-> table, staged |-> table ]
        IN  /\ tx' = IF begins THEN Some(t) ELSE None
            /\ last' = IF begins THEN last ELSE Return(t, "begin", Err("SqlxError"))
            /\ client_rw' = IF begins THEN TRUE ELSE ReleaseLock(Err("SqlxError"))

\* put, update and delete take CLIENT_RW and begin a transaction
Put(pipeline) ==
    /\ ~client_rw
    /\ Begin("put", pipeline.id, Some(pipeline))
    /\ UNCHANGED <<table, first_put, schema>>
    /\ UNCHANGED around_vars
    /\ UNCHANGED <<export, fs>>

Update(pipeline) ==
    /\ ~client_rw
    /\ Begin("update", pipeline.id, Some(pipeline))
    /\ UNCHANGED <<table, first_put, schema>>
    /\ UNCHANGED around_vars
    /\ UNCHANGED <<export, fs>>

Delete(pipeline_id) ==
    /\ ~client_rw
    /\ Begin("delete", pipeline_id, None)
    /\ UNCHANGED <<table, first_put, schema>>
    /\ UNCHANGED around_vars
    /\ UNCHANGED <<export, fs>>

\* the statements of the transaction; on Err the transaction is rolled back
\* (put, update) or dropped (delete's ?) and the guard is released
Execute ==
    /\ tx # None
    /\ tx[1].phase = "execute"
    /\ \E fails \in BOOLEAN :
          LET t == tx[1]
              row_not_found == t.op = "delete" /\ t.staged[t.id] = None
              result == Err(IF row_not_found THEN "RowNotFound" ELSE "SqlxError")
              staged == CASE t.op = "put" -> Insert(t.staged, t.pipeline[1])
                          [] t.op = "update" -> UpdateWhereId(t.staged, t.pipeline[1])
                          [] OTHER -> DeleteWhereId(t.staged, t.id)
              fetched == IF t.op = "delete" /\ ~row_not_found
                         THEN Some(FromRow(t.staged[t.id][1])) ELSE None
          IN  /\ (row_not_found \/ ~schema.table) => fails
              /\ table' = IF fails THEN Rollback(table, t.staged) ELSE table
              /\ client_rw' = IF fails THEN ReleaseLock(result) ELSE client_rw
              /\ tx' = IF fails THEN None
                       ELSE Some([t EXCEPT !.phase = "commit", !.staged = staged,
                                           !.fetched = fetched])
              /\ last' = IF fails THEN Return(t, "execute", result) ELSE last
    /\ UNCHANGED <<first_put, schema>>
    /\ UNCHANGED around_vars
    /\ UNCHANGED <<export, fs>>

\* tx.commit().await, then the guard is released
Commit ==
    /\ tx # None
    /\ tx[1].phase = "commit"
    /\ \E commits \in BOOLEAN :
          LET t == tx[1]
              result == IF commits THEN Ok(t.fetched) ELSE Err("SqlxError")
          IN  /\ table' = IF commits THEN Committed(table, t.staged)
                          ELSE CommitFailed(table, t.staged)
              /\ last' = Return(t, "commit", result)
              /\ first_put' = IF commits THEN History(first_put, t) ELSE first_put
              /\ client_rw' = ReleaseLock(result)
    /\ tx' = None
    /\ UNCHANGED schema
    /\ UNCHANGED around_vars
    /\ UNCHANGED <<export, fs>>

\* create_table, create_table_index and drop_table take CLIENT_RW and run their
\* statements on the client itself, with no transaction
Ddl(op) ==
    /\ client_rw' = TRUE
    /\ tx' = Some([ op |-> op, id |-> "", pipeline |-> None, phase |-> "ddl",
                    fetched |-> None, before |-> table, staged |-> table ])

CreateTable ==
    /\ ~client_rw
    /\ Ddl("create_table")
    /\ UNCHANGED <<table, last, first_put, schema>>
    /\ UNCHANGED around_vars
    /\ UNCHANGED <<export, fs>>

CreateTableIndex ==
    /\ ~client_rw
    /\ Ddl("create_table_index")
    /\ UNCHANGED <<table, last, first_put, schema>>
    /\ UNCHANGED around_vars
    /\ UNCHANGED <<export, fs>>

DropTable ==
    /\ ~client_rw
    /\ Ddl("drop_table")
    /\ UNCHANGED <<table, last, first_put, schema>>
    /\ UNCHANGED around_vars
    /\ UNCHANGED <<export, fs>>

\* the next statement of the call: CREATE TABLE IF NOT EXISTS, one of the two
\* CREATE INDEX IF NOT EXISTS, or DROP TABLE IF EXISTS, which takes the rows and
\* the indexes with it; the call returns on Err or after its last statement
ExecuteDdl ==
    /\ tx # None
    /\ tx[1].phase \in {"ddl", "ddl2"}
    /\ \E fails \in BOOLEAN :
          LET t == tx[1]
              index == IF t.phase = "ddl" THEN 1 ELSE 2
              more == t.op = "create_table_index" /\ t.phase = "ddl" /\ ~fails
              result == IF fails THEN Err("SqlxError") ELSE Ok(None)
          IN  /\ (t.op = "create_table_index" /\ ~schema.table) => fails
              /\ schema' =
                    CASE fails -> schema
                      [] t.op = "create_table" -> [schema EXCEPT !.table = TRUE]
                      [] t.op = "create_table_index" ->
                            [schema EXCEPT !.indexes = @ \cup {PipelineIndexes[index]}]
                      [] OTHER -> [table |-> FALSE, indexes |-> {}]
              /\ table' = IF ~fails /\ t.op = "drop_table" THEN NoRows ELSE table
              /\ first_put' = IF ~fails /\ t.op = "drop_table"
                              THEN [id \in PipelineIds |->
                                       [pipeline |-> None, intervened |-> FALSE]]
                              ELSE first_put
              /\ tx' = IF more THEN Some([t EXCEPT !.phase = "ddl2"]) ELSE None
              /\ last' = IF more THEN last ELSE Return(t, t.phase, result)
              /\ client_rw' = IF more THEN client_rw ELSE ReleaseLock(result)
    /\ UNCHANGED around_vars
    /\ UNCHANGED <<export, fs>>

\* every writing operation, over the pipelines of one id
NextLock ==
    \/ CreateTable
    \/ CreateTableIndex
    \/ DropTable
    \/ ExecuteDdl
    \/ \E pipeline \in {p \in Pipelines : p.id = "p1"} : Put(pipeline)
    \/ \E pipeline \in {p \in Pipelines : p.id = "p1"} : Update(pipeline)
    \/ Delete("p1")
    \/ Execute
    \/ Commit

NextPipeline ==
    \/ \E pipeline \in Pipelines : Put(pipeline)
    \/ \E pipeline \in Pipelines : Update(pipeline)
    \/ \E pipeline_id \in PipelineIds : Delete(pipeline_id)
    \/ Execute
    \/ Commit

\* no search request; the pipeline table starts empty
InitPipeline ==
    /\ InitWith({}, 0, 0, 0, {NoInput})
    /\ ~env.feature_query_queue_enabled

SpecPipeline == InitPipeline /\ [][NextPipeline]_vars

SpecLock == InitPipeline /\ [][NextLock]_vars

(* --------------------------- Export::operator -------------------------- *)
store_vars == <<table, tx, last, first_put, client_rw, schema>>

\* operator up to the await of SearchService::search: Ok(false) if the search
\* type is invalid
Operator(c, search_type) ==
    /\ export.pc \in {"idle", "returned"}
    /\ export.runs < MaxExports
    /\ export' = [ pc |-> IF search_type.ok THEN "search" ELSE "returned",
                   runs |-> export.runs + 1, c |-> c, search_type |-> search_type,
                   res |-> None,
                   result |-> IF search_type.ok THEN None ELSE Ok(Some(FALSE)) ]
    /\ UNCHANGED fs
    /\ UNCHANGED around_vars
    /\ UNCHANGED store_vars

\* the search returned Ok(res): Ok(false) for a file type other than "json",
\* else create_dir_all, File::create and to_writer_pretty, each returning its
\* error through ?
ExportSearchOk ==
    /\ export.pc = "search"
    /\ \E hits \in SeqsUpTo(HitTimes(0), env.hits), now \in Timestamps,
          failure \in {"", "create_dir_all", "create", "to_writer_pretty"},
          made \in 0..Len(Components(export.c.data)) :
          LET c == export.c
              name == FileName(now, c.file_type)
              whole == Len(Components(c.data))
              dirs == CreateDirAll(fs.dirs, c.data,
                                   IF failure = "create_dir_all" THEN made ELSE whole)
              created == FileCreate(fs.files, c.data, name)
              written == ToWriterPretty(created, c.data, name, hits,
                                        failure # "to_writer_pretty")
          IN  /\ failure = "create_dir_all" <=> made < whole
              /\ export' = [export EXCEPT
                               !.pc = "returned",
                               !.res = Some(hits),
                               !.result =
                                   IF ~FileTypeImplemented(c.file_type)
                                   THEN Ok(Some(FALSE))
                                   ELSE IF failure # "" THEN Err(failure)
                                   ELSE Ok(Some(TRUE))]
              /\ fs' = CASE ~FileTypeImplemented(c.file_type) -> fs
                         [] failure = "create_dir_all" -> [fs EXCEPT !.dirs = dirs]
                         [] failure = "create" -> [fs EXCEPT !.dirs = dirs]
                         [] OTHER -> [dirs |-> dirs, files |-> written]
    /\ UNCHANGED around_vars
    /\ UNCHANGED store_vars

\* the search returned Err: Ok(false)
ExportSearchErr ==
    /\ export.pc = "search"
    /\ export' = [export EXCEPT !.pc = "returned", !.result = Ok(Some(FALSE))]
    /\ UNCHANGED fs
    /\ UNCHANGED around_vars
    /\ UNCHANGED store_vars

NextExport ==
    \/ \E c \in Clis, search_type \in SearchTypes : Operator(c, search_type)
    \/ ExportSearchOk
    \/ ExportSearchErr

\* no search request of the HTTP API; the engine returns up to one hit
InitCli ==
    /\ InitWith({}, 1, 0, 0, {NoInput})
    /\ ~env.feature_query_queue_enabled

SpecExport == InitCli /\ [][NextExport]_vars

(* ------------------------------- claims -------------------------------- *)
\* the Failure Translator as the specification states it
FailureTranslator(err, trace_id) ==
    CASE err.variant = "ErrorCode" /\ err.code = "SearchCancelQuery" ->
            [ status |-> 429,
              body |-> [kind |-> "error_code", error |-> err.code, trace_id |-> <<trace_id>>] ]
      [] err.variant = "ErrorCode" /\ err.code # "SearchCancelQuery" ->
            [ status |-> 500,
              body |-> [kind |-> "error_code", error |-> err.code, trace_id |-> <<trace_id>>] ]
      [] OTHER ->
            [ status |-> 500,
              body |-> [kind |-> "error", code |-> 500, message |-> err.text] ]

ForwardFailed(r) == Len(returned[r]) >= 1 /\ ~returned[r][1].ok
BackwardFailed(r) == Len(returned[r]) >= 2 /\ returned[r][1].ok /\ ~returned[r][2].ok
BothSucceeded(r) == Len(returned[r]) = 2 /\ returned[r][1].ok /\ returned[r][2].ok
Responded(r) == http[r] # None
Succeeded(r) == Responded(r) /\ http[r][1].status = 200
BackwardCalls(r) == {i \in 1..Len(calls[r]) : calls[r][i].phase = "backward"}

\* C1: when the forward engine call returns an error, no backward engine call is
\* ever issued for the request, no usage record is emitted, and the response is
\* the translation of the forward error.
C1_ForwardFailureStops ==
    \A r \in Reqs :
        ForwardFailed(r) =>
            /\ BackwardCalls(r) = {}
            /\ Len(calls[r]) = 1
            /\ usage[r] = <<>>
            /\ http[r] = Some(FailureTranslator(returned[r][1].err, input[r].trace_id))

C1_Witness ==
    \E r \in Reqs : ForwardFailed(r) /\ pc[r] = "done" /\ Responded(r)

\* C2: when the forward call succeeds and the backward call fails, the response is
\* the translation of the backward error and carries no hits; a response that
\* carries hits is produced only when both engine calls succeeded.
C2_BothOrNeither ==
    \A r \in Reqs :
        /\ BackwardFailed(r) =>
              /\ http[r] = Some(FailureTranslator(returned[r][2].err, input[r].trace_id))
              /\ http[r][1].status # 200
              /\ http[r][1].body.kind \in {"error_code", "error"}
        /\ Succeeded(r) =>
              /\ BothSucceeded(r)
              /\ resp_forward[r] # None
              /\ resp_backward[r] # None

C2_Witness ==
    \E r \in Reqs :
        /\ BackwardFailed(r)
        /\ Responded(r)
        /\ resp_forward[r] # None
        /\ resp_forward[r][1].hits # <<>>

\* C3: on success the response's hits are the backward hits reversed followed by
\* the forward hits, and its total is the sum of the two lengths, whatever the
\* requested window size.
C3_MergedHits ==
    \A r \in Reqs :
        Succeeded(r) =>
            LET fw == resp_forward[r][1].hits
                bw == resp_backward[r][1].hits
                hits == http[r][1].body.hits
            IN  /\ Len(hits) = Len(fw) + Len(bw)
                /\ \A i \in 1..Len(bw) : hits[i] = bw[Len(bw) + 1 - i]
                /\ \A i \in 1..Len(fw) : hits[Len(bw) + i] = fw[i]
                /\ http[r][1].body.total = Len(fw) + Len(bw)

C3_Witness ==
    \E r \in Reqs :
        /\ Succeeded(r)
        /\ Len(resp_backward[r][1].hits) = 2
        /\ resp_backward[r][1].hits[1] # resp_backward[r][1].hits[2]
        /\ resp_forward[r][1].hits # <<>>
        /\ local[r].around_size > 0
        /\ http[r][1].body.total > local[r].around_size

InRange(hits, lo, hi) == \A i \in 1..Len(hits) : lo <= hits[i] /\ hits[i] <= hi
Ascending(hits) == \A i, j \in 1..Len(hits) : i < j => hits[i] <= hits[j]
Descending(hits) == \A i, j \in 1..Len(hits) : i < j => hits[i] >= hits[j]
ForwardCall(r) == calls[r][1].query
BackwardCall(r) == calls[r][2].query

\* C4: when each phase's hits lie inside the time range dispatched for that phase
\* and are ordered as that phase asked (forward ascending, backward descending),
\* the merged sequence reverse(backward.hits) ++ forward.hits is ascending.
C4_MergedAscending ==
    \A r \in Reqs :
        ( /\ Succeeded(r)
          /\ InRange(resp_forward[r][1].hits, ForwardCall(r).start_time, ForwardCall(r).end_time)
          /\ Ascending(resp_forward[r][1].hits)
          /\ InRange(resp_backward[r][1].hits, BackwardCall(r).start_time, BackwardCall(r).end_time)
          /\ Descending(resp_backward[r][1].hits) )
        => Ascending(http[r][1].body.hits)

C6_ForwardAfterPivot ==
    \A r \in Reqs :
        \A i \in 1..Len(calls[r]) :
            LET q == calls[r][i].query
                pivot == local[r].around_key
            IN  /\ calls[r][i].phase = "forward" =>
                      /\ q.start_time = pivot
                      /\ q.end_time = pivot + 900000000
                      /\ pivot = 1000000000 =>
                            q.start_time = 1000000000 /\ q.end_time = 1900000000
                /\ calls[r][i].phase = "backward" =>
                      /\ q.start_time = pivot - 900000000
                      /\ q.end_time = pivot
                      /\ pivot = 1000000000 =>
                            q.start_time = 100000000 /\ q.end_time = 1000000000

\* C7 as stated: both queries carry the same size; for even N the two sizes sum
\* to N and for odd N to N - 1.
C7_HalvesSumBelow ==
    \A r \in Reqs :
        \A i \in 1..Len(calls[r]) :
            LET N == local[r].around_size
                half == calls[r][i].query.size
            IN  /\ half = ForwardCall(r).size
                /\ N % 2 = 0 => half + half = N
                /\ N % 2 = 1 => half + half = N - 1

\* C7 as amended: both queries carry the same size, N / 2 truncated toward zero;
\* the two sizes sum to N for even N, to N - 1 for odd N > 0 and to N + 1 for
\* odd N < 0.
C7_HalvesTruncated ==
    \A r \in Reqs :
        \A i \in 1..Len(calls[r]) :
            LET N == local[r].around_size
                half == calls[r][i].query.size
            IN  /\ half = ForwardCall(r).size
                /\ N % 2 = 0 => half + half = N
                /\ (N % 2 = 1 /\ N > 0) => half + half = N - 1
                /\ (N % 2 = 1 /\ N < 0) => half + half = N + 1

C7_Witness ==
    \E r \in Reqs :
        /\ Len(calls[r]) = 2
        /\ local[r].around_size = -3
        /\ ForwardCall(r).size = -1
        /\ BackwardCall(r).size = -1

\* C8: on success the response's scan size and elapsed time are the sums of the
\* two phases' values and its size is the requested window size.
C8_SummedStats ==
    \A r \in Reqs :
        Succeeded(r) =>
            LET fw == resp_forward[r][1]
                bw == resp_backward[r][1]
                body == http[r][1].body
            IN  /\ body.scan_size = fw.scan_size + bw.scan_size
                /\ body.took = fw.took + bw.took
                /\ body.size = local[r].around_size

C8_Witness ==
    \E r \in Reqs :
        /\ Succeeded(r)
        /\ resp_forward[r][1].scan_size > 0
        /\ resp_backward[r][1].scan_size > 0
        /\ resp_forward[r][1].took # resp_backward[r][1].took
        /\ http[r][1].body.size = 5
        /\ http[r][1].body.size # Len(http[r][1].body.hits)
        /\ http[r][1].body.size # ForwardCall(r).size + BackwardCall(r).size

\* C9 as stated: on success the response's cache ratio is exactly the mean of the
\* two phases' ratios.
C9_ExactMean ==
    \A r \in Reqs :
        Succeeded(r) =>
            2 * http[r][1].body.cached_ratio
                = resp_forward[r][1].cached_ratio + resp_backward[r][1].cached_ratio

\* C9 as amended: on success the response's cache ratio is the mean of the two
\* phases' ratios rounded down to an integer, whatever the two hit counts.
C9_MeanRoundedDown ==
    \A r \in Reqs :
        Succeeded(r) =>
            LET sum == resp_forward[r][1].cached_ratio + resp_backward[r][1].cached_ratio
                ratio == http[r][1].body.cached_ratio
            IN  /\ sum % 2 = 0 => 2 * ratio = sum
                /\ sum % 2 = 1 => 2 * ratio = sum - 1

C9_Witness ==
    \E r \in Reqs :
        /\ Succeeded(r)
        /\ resp_forward[r][1].cached_ratio = 1
        /\ resp_backward[r][1].cached_ratio = 0
        /\ http[r][1].body.cached_ratio = 0
        /\ Len(resp_forward[r][1].hits) # Len(resp_backward[r][1].hits)

LastReturned(r) == returned[r][Len(returned[r])]

\* C10: the failure translation is one function of the error and the trace id,
\* the same after the forward and after the backward call: a cancelled query maps
\* to 429 with the error code and the trace id, another error code to 500 with the
\* error code and the trace id, any other error to 500 with the error's message.
C10_OneTranslation ==
    /\ \A err \in SearchErrors, t \in Reqs :
          /\ TranslateForward(err, t) = FailureTranslator(err, t)
          /\ TranslateBackward(err, t) = FailureTranslator(err, t)
    /\ \A r \in Reqs :
          (returned[r] # <<>> /\ ~LastReturned(r).ok) =>
              http[r] = Some(FailureTranslator(LastReturned(r).err, input[r].trace_id))

C10_Witness ==
    \E r \in Reqs :
        /\ BackwardFailed(r)
        /\ returned[r][2].err.code = "SearchCancelQuery"
        /\ Responded(r)
        /\ http[r][1].status = 429
        /\ http[r][1].body.trace_id = <<input[r].trace_id>>

(* ------------------------- the Admission Gate -------------------------- *)
\* the request is between QUEUE_LOCKER.lock().await and its return
Gated(r) == pc[r] \in {"forward", "backward", "report"}

\* the request returned a response or a request error, or its future was dropped
Ended(r) == pc[r] \in {"done", "cancelled", "failed", "panicked"}

AllEnded == \A r \in env.reqs : Ended(r)

\* C11: with the throttle enabled, a request that acquired the gate holds it
\* until it ends, so at most one request is between the gate's acquisition and
\* its response, and no request dispatches an engine call while another request
\* is in that interval.
C11_GateSerializes ==
    env.feature_query_queue_enabled =>
        /\ \A r \in Reqs : Gated(r) => locker = r
        /\ \A r1, r2 \in Reqs : (Gated(r1) /\ Gated(r2)) => r1 = r2

C11_Witness ==
    /\ env.feature_query_queue_enabled
    /\ \E r1, r2 \in Reqs :
          /\ r1 # r2
          /\ pc[r1] = "backward"
          /\ Len(calls[r1]) = 2
          /\ pc[r2] = "lock"
          /\ calls[r2] = <<>>

\* C12: with the throttle enabled, the gate is released on every exit path of the
\* request that acquired it (success, forward failure, backward failure,
\* cancellation at an await); once every request has ended the gate is free.
C12_GateReleased ==
    env.feature_query_queue_enabled =>
        /\ \A r \in Reqs : Ended(r) => locker # r
        /\ AllEnded => locker = 0

C12_Witness ==
    /\ env.feature_query_queue_enabled
    /\ AllEnded
    /\ \E r1, r2 \in Reqs :
          /\ pc[r1] = "cancelled"
          /\ calls[r1] # <<>>
          /\ pc[r2] = "done"
          /\ calls[r2] # <<>>
          /\ http[r2] # None

\* C13: cancellation at any await, the wait for the gate included, does not leave
\* the pending gauge incremented: once every request has ended the gauge is back
\* at its initial value.
C13_GaugeRestored == AllEnded => pending = 0

\* C14: with the throttle disabled the gate never blocks: the lock is free in
\* every state, so a request at lock().await proceeds to its forward dispatch
\* whatever the other requests are doing, and requests' engine calls overlap.
C14_DisabledNeverBlocks ==
    ~env.feature_query_queue_enabled =>
        /\ locker = 0
        /\ \A r \in Reqs : pc[r] = "lock" => ENABLED SearchForward(r)

C14_Witness ==
    /\ ~env.feature_query_queue_enabled
    /\ \E r1, r2 \in Reqs :
          /\ r1 # r2
          /\ pc[r1] = "forward"
          /\ pc[r2] = "backward"

(* ---------------------- the Query Context Builder ---------------------- *)
\* the builder ran to the gate without a request error
Built(r) == pc[r] \notin {"idle", "failed"}

\* the fields of the payload, where the payload is the JSON text of an object
IsObjectBody(body) == body # None /\ body[1].valid /\ body[1].value.t = "object"

ObjectOf(body) == body[1].value.fields

\* the payload object has a timestamp-column entry that is not null / is an integer
HasTimestamp(body) ==
    /\ IsObjectBody(body)
    /\ TIMESTAMP_COL_NAME \in DOMAIN ObjectOf(body)
    /\ ObjectOf(body)[TIMESTAMP_COL_NAME].t # "null"

HasIntTimestamp(body) ==
    HasTimestamp(body) /\ ObjectOf(body)[TIMESTAMP_COL_NAME].t = "int"

\* the allow-listed fields present in the payload with a non-null value
Extracted(body) ==
    IF IsObjectBody(body)
    THEN {f \in DEFAULT_SEARCH_AROUND_FIELDS \cap DOMAIN ObjectOf(body) :
             ObjectOf(body)[f].t # "null"}
    ELSE {}

AugmentFailed(r) == augment[r] # <<>> /\ ~augment[r][1].ok

\* every error response is the translation of an engine error
OnlyEngineErrors(r) ==
    (http[r] # None /\ http[r][1].status # 200) =>
        (returned[r] # <<>> /\ ~returned[r][Len(returned[r])].ok)

\* C15: if at least one filter was extracted and the filter-augmentation
\* collaborator fails, the request ends with a request error: no engine call,
\* the gate not acquired, the gauge unchanged, no usage record.  If no filter was
\* extracted the collaborator is not invoked and the SQL is the decoded one.
C15_AugmentationFailure ==
    \A r \in Reqs :
        /\ AugmentFailed(r) =>
              /\ Extracted(input[r].body) # {}
              /\ pc[r] = "failed"
              /\ calls[r] = <<>>
              /\ locker = 0
              /\ pending = 0
              /\ usage[r] = <<>>
              /\ metrics[r] = <<>>
              /\ http[r] = None
        /\ pc[r] = "failed" => AugmentFailed(r)
        /\ (pc[r] # "idle" /\ Extracted(input[r].body) = {}) =>
              /\ augment[r] = <<>>
              /\ local[r].around_sql = DecodeSql(input[r])
        /\ (pc[r] # "idle" /\ Extracted(input[r].body) # {}) => Len(augment[r]) = 1

C15_Witness ==
    \E r \in Reqs :
        /\ AugmentFailed(r)
        /\ pc[r] = "failed"
        /\ DOMAIN augment[r][1].filters = {"host", "pod"}

\* a query-string number is absent or is not a decimal i64
Unparsable(param) == param = None \/ ~param[1].num

\* a base64url query-string value is absent or does not decode
Undecoded(param) == param = None \/ ~param[1].valid

\* C16: decoding and parsing never produce an error: an absent or unparsable
\* key is 0 (unless the payload overrides it), an absent or unparsable size is 10,
\* an absent or unparsable timeout is 0, an absent or undecodable sql is the
\* default SELECT, an undecodable transform expression is no expression; a
\* parsable or decodable value is taken as given.  The only request error is the
\* filter-augmentation failure and the only error responses are engine errors.
C16_SilentDefaults ==
    \A r \in Reqs :
        /\ pc[r] = "failed" => AugmentFailed(r)
        /\ OnlyEngineErrors(r)
        /\ Built(r) =>
              /\ ~HasIntTimestamp(input[r].body) =>
                    local[r].around_key =
                        IF Unparsable(input[r].key) THEN 0 ELSE input[r].key[1].val
              /\ local[r].around_size =
                    IF Unparsable(input[r].size) THEN 10 ELSE input[r].size[1].val
              /\ local[r].around_sql.base =
                    IF Undecoded(input[r].sql) THEN "default" ELSE input[r].sql[1].text.base
              /\ Undecoded(input[r].query_fn) => local[r].query_fn = None
              /\ ~Undecoded(input[r].query_fn) => local[r].query_fn # None
        /\ \A i \in DOMAIN calls[r] :
              /\ calls[r][i].timeout =
                    IF Unparsable(input[r].timeout) THEN 0 ELSE input[r].timeout[1].val
              /\ calls[r][i].query.sql.base = local[r].around_sql.base
              /\ calls[r][i].query.query_fn = local[r].query_fn

C16_Witness ==
    \E r \in Reqs :
        /\ input[r].key = Some(BadParam)
        /\ input[r].size = Some(BadParam)
        /\ input[r].timeout = Some(BadParam)
        /\ input[r].sql = Some(Undecodable)
        /\ input[r].query_fn = Some(Undecodable)
        /\ Len(calls[r]) = 2
        /\ http[r] # None
        /\ http[r][1].status = 200

\* the filter set handed to the collaborator is exactly the allow-listed fields
\* present with a non-null value, each with its string value, and nothing is
\* handed over when there is none
ExactFilters(r) ==
    LET present == Extracted(input[r].body)
    IN  IF present = {} THEN augment[r] = <<>>
        ELSE /\ Len(augment[r]) = 1
             /\ DOMAIN augment[r][1].filters = present
             /\ \A f \in present :
                   LET value == ObjectOf(input[r].body)[f]
                   IN  augment[r][1].filters[f] =
                          IF value.t = "str" THEN value.s ELSE ToString(value.i)
             /\ Built(r) =>
                   local[r].around_sql.filters =
                       {<<f, augment[r][1].filters[f]>> : f \in present}

\* C17 as stated: for every payload object the filter set is exactly the
\* allow-listed non-null fields, and a (non-null) timestamp-column entry of the
\* payload overrides the pivot key of the query string.
C17_TimestampOverrides ==
    \A r \in Reqs :
        (pc[r] # "idle" /\ IsObjectBody(input[r].body)) =>
            /\ ExactFilters(r)
            /\ (Built(r) /\ HasTimestamp(input[r].body)) =>
                  /\ ObjectOf(input[r].body)[TIMESTAMP_COL_NAME].t = "int"
                  /\ local[r].around_key = ObjectOf(input[r].body)[TIMESTAMP_COL_NAME].i

\* C17 amended: the filter set is exactly the allow-listed non-null fields; a
\* timestamp-column entry that is an integer overrides the pivot key, one that is
\* not an integer leaves the query string's pivot key in place; in neither case
\* does it become a filter.
C17_IntegerTimestampOverrides ==
    \A r \in Reqs :
        (pc[r] # "idle" /\ IsObjectBody(input[r].body)) =>
            /\ ExactFilters(r)
            /\ \A i \in DOMAIN augment[r] :
                  TIMESTAMP_COL_NAME \notin DOMAIN augment[r][i].filters
            /\ Built(r) =>
                  local[r].around_key =
                      IF HasIntTimestamp(input[r].body)
                      THEN ObjectOf(input[r].body)[TIMESTAMP_COL_NAME].i
                      ELSE ParseKey(input[r])

C17_Witness ==
    \E r \in Reqs :
        /\ IsObjectBody(input[r].body)
        /\ DOMAIN ObjectOf(input[r].body) = PayloadFields
        /\ ObjectOf(input[r].body)[TIMESTAMP_COL_NAME] = JInt(1000000500)
        /\ ObjectOf(input[r].body)["host"] = JStr("h1")
        /\ ObjectOf(input[r].body)["pod"] = JNull
        /\ input[r].key = Some(NumParam(1000000000))
        /\ Len(calls[r]) = 2
        /\ calls[r][1].query.end_time = 1000000500
        /\ calls[r][1].query.sql.filters = {<<"host", "h1">>}

\* the payload is there and is not the JSON text of an object
Malformed(body) == body # None /\ ~IsObjectBody(body)

\* C18: a payload that is not valid JSON or is not an object yields an empty
\* filter set, leaves the pivot key and the SQL as the query string gives them
\* and never causes an error.
C18_MalformedPayloadTolerated ==
    \A r \in Reqs :
        (pc[r] # "idle" /\ Malformed(input[r].body)) =>
            /\ augment[r] = <<>>
            /\ pc[r] # "failed"
            /\ local[r].around_key = ParseKey(input[r])
            /\ local[r].around_sql = DecodeSql(input[r])
            /\ OnlyEngineErrors(r)

C18_Witness ==
    \E r \in Reqs :
        /\ input[r].body = Some(InvalidJson)
        /\ input[r].key = Some(NumParam(1000000000))
        /\ input[r].sql = Some(Encoded(CustomSql))
        /\ Len(calls[r]) = 2
        /\ calls[r][2].query.start_time = 1000000000
        /\ calls[r][2].query.sql.base = "custom"
        /\ http[r] # None
        /\ http[r][1].status = 200

\* the transform expressions sent to the engine by request r
SentFns(r) ==
    {calls[r][i].query.query_fn[1] : i \in {j \in DOMAIN calls[r] :
                                              calls[r][j].query.query_fn # None}}

\* the text ends in '.', whitespace after it left aside
EndsInTerminatorThenSpace(fn) ==
    \E k \in DOMAIN fn :
        /\ fn[k] = "."
        /\ \A j \in (k + 1)..Len(fn) : fn[j] \in {" ", "\n"}

\* a decodable transform expression was supplied, and fn is what was sent for it
SentFor(r, fn) ==
    /\ ~Undecoded(input[r].query_fn)
    /\ fn \in SentFns(r)

\* C19 as stated: the normalized expression sent to the engine always ends in
\* '.': one already ending in it is passed unchanged, otherwise the terminator is
\* appended; normalizing a normalized expression changes nothing.
C19_EndsInTerminator ==
    \A r \in Reqs : \A fn \in SentFns(r) :
        LET supplied == input[r].query_fn[1].text
        IN  /\ fn[Len(fn)] = "."
            /\ fn = IF supplied # <<>> /\ supplied[Len(supplied)] = "." THEN supplied
                    ELSE supplied \o <<" ", "\n", " ", ".">>
            /\ NormalizeFn(fn) = fn

\* C19 amended: the expression sent ends in '.' once trailing whitespace is left
\* aside: one that already does is passed unchanged, whitespace after its '.'
\* included, otherwise " \n ." is appended; normalizing twice changes nothing.
C19_EndsInTerminatorTrimmed ==
    /\ \A r \in Reqs : \A i \in DOMAIN calls[r] :
          Undecoded(input[r].query_fn) <=> calls[r][i].query.query_fn = None
    /\ \A r \in Reqs : \A fn \in SentFns(r) :
          LET supplied == input[r].query_fn[1].text
          IN  /\ EndsInTerminatorThenSpace(fn)
              /\ fn = IF EndsInTerminatorThenSpace(supplied) THEN supplied
                      ELSE supplied \o <<" ", "\n", " ", ".">>
              /\ NormalizeFn(fn) = fn

C19_Witness ==
    \E r \in Reqs :
        /\ input[r].query_fn = Some(Encoded(<<".", " ">>))
        /\ Len(calls[r]) = 2
        /\ SentFns(r) = {<<".", " ">>}

\* C20: the usage emitter runs only after a successful merge: a request whose
\* two engine calls both succeeded and that answered emitted exactly one
\* UsageRecord; one that ended in a forward failure, a backward failure or a
\* filter-augmentation failure emitted none.
C20_UsageAfterMerge ==
    \A r \in Reqs :
        /\ Len(usage[r]) <= 1
        /\ usage[r] # <<>> =>
              /\ Len(returned[r]) = 2
              /\ returned[r][1].ok /\ returned[r][2].ok
              /\ local[r].resp # None
              /\ usage[r][1].records = Len(local[r].resp[1].hits)
        /\ (http[r] # None /\ http[r][1].status = 200) => Len(usage[r]) = 1
        /\ (returned[r] # <<>> /\ ~returned[r][Len(returned[r])].ok) => usage[r] = <<>>
        /\ pc[r] = "failed" => usage[r] = <<>>

C20_Witness ==
    \E r \in Reqs :
        /\ Len(returned[r]) = 2
        /\ returned[r][2].ok
        /\ pc[r] = "done"
        /\ Len(usage[r]) = 1
        /\ usage[r][1].num_fn = 1

(* ----------------------------- the Dispatcher -------------------------- *)
\* the engine calls of request r that have not returned
Outstanding(r) == Len(calls[r]) - Len(returned[r])

\* C21: within one request the backward engine call starts only after the
\* forward call returned Ok, a request never has two engine calls outstanding,
\* it issues at most two calls, forward then backward, and it issues none before
\* it has passed the gate (lock acquired, gauge decremented).
C21_StrictlyOrdered ==
    \A r \in Reqs :
        /\ Outstanding(r) \in {0, 1}
        /\ Len(calls[r]) <= 2
        /\ \A i \in DOMAIN calls[r] :
              calls[r][i].phase = IF i = 1 THEN "forward" ELSE "backward"
        /\ \A i \in DOMAIN returned[r] :
              returned[r][i].phase = calls[r][i].phase
        /\ Len(calls[r]) = 2 =>
              /\ returned[r] # <<>>
              /\ returned[r][1].ok
        /\ pc[r] \in {"idle", "lock", "failed"} => calls[r] = <<>>
        /\ (Outstanding(r) = 1 /\ env.feature_query_queue_enabled /\ ~Ended(r)) =>
              locker = r

C21_Witness ==
    \E r1, r2 \in Reqs :
        /\ r1 # r2
        /\ Len(calls[r1]) = 2
        /\ Len(returned[r1]) = 1
        /\ Outstanding(r2) = 1
        /\ Len(calls[r2]) = 1

\* the requests that incremented the gauge and have not passed the gate
Waiting == {r \in Reqs : pc[r] \notin {"idle", "failed"} /\ calls[r] = <<>>}

\* C22: the gauge is incremented before the request tries to acquire the gate
\* and decremented once it has acquired it (at once when the throttle is off); in
\* every state it is non-negative and equals the number of requests that have
\* incremented it and not passed the gate.
C22_GaugeCountsWaiting ==
    /\ pending >= 0
    /\ pending = Cardinality(Waiting)
    /\ \A r \in Reqs : pc[r] = "lock" => r \in Waiting
    /\ \A r \in Reqs : Gated(r) => r \notin Waiting

C22_Witness ==
    /\ pending = 1
    /\ \E r1, r2 \in Reqs :
          /\ pc[r1] = "lock"
          /\ pc[r2] = "backward"
          /\ locker = r2

\* C23: a failure of the order-by injection is not fatal in either phase: the
\* phase is dispatched with the filter-augmented SQL text unchanged, the other
\* phase's SQL is the augmented text rewritten or unchanged on its own account,
\* and no error comes of it.
C23_RewriteFailureTolerated ==
    \A r \in Reqs :
        /\ OnlyEngineErrors(r)
        /\ pc[r] = "failed" => AugmentFailed(r)
        /\ \A i \in DOMAIN calls[r] :
              LET sql == calls[r][i].query.sql
              IN  /\ sql.base = local[r].around_sql.base
                  /\ sql.filters = local[r].around_sql.filters
                  /\ sql.order \in {"none", IF i = 1 THEN "asc" ELSE "desc"}
                  /\ sql.order = "none" => sql = local[r].around_sql

C23_Witness ==
    \E r \in Reqs :
        /\ Len(calls[r]) = 2
        /\ calls[r][1].query.sql.order = "none"
        /\ calls[r][1].query.sql.filters = {<<"host", "h1">>, <<"pod", "1000000500">>}
        /\ calls[r][1].query.sql.base = "custom"
        /\ calls[r][2].query.sql.order = "desc"
        /\ http[r] # None
        /\ http[r][1].status = 200

(* --------------------------- the Usage Emitter ------------------------- *)
\* the request emitted its usage record
Emitted(r) == usage[r] # <<>>

ForwardWait(r) == resp_forward[r][1].took_detail

BackwardWait(r) == resp_backward[r][1].took_detail

\* C24: took_wait_in_queue of the UsageRecord is the sum of the two phases'
\* queue waits when both report a timing breakdown, the one reported value when
\* exactly one does, and absent when neither does.
C24_QueueWait ==
    \A r \in Reqs :
        Emitted(r) =>
            LET wait == usage[r][1].took_wait_in_queue
            IN  /\ (ForwardWait(r) # <<>> /\ BackwardWait(r) # <<>>) =>
                      wait = << ForwardWait(r)[1].cluster_wait_queue
                                + BackwardWait(r)[1].cluster_wait_queue >>
                /\ (ForwardWait(r) # <<>> /\ BackwardWait(r) = <<>>) =>
                      wait = << ForwardWait(r)[1].cluster_wait_queue >>
                /\ (ForwardWait(r) = <<>> /\ BackwardWait(r) # <<>>) =>
                      wait = << BackwardWait(r)[1].cluster_wait_queue >>
                /\ (ForwardWait(r) = <<>> /\ BackwardWait(r) = <<>>) => wait = <<>>

C24_Witness ==
    \E r \in Reqs :
        /\ Emitted(r)
        /\ ForwardWait(r) = <<>>
        /\ BackwardWait(r) = <<[cluster_wait_queue |-> 1]>>
        /\ usage[r][1].took_wait_in_queue = <<1>>

\* C25: for every request that succeeds, the transform-presence flag reported
\* with the usage record is 1 if the request supplied a (decodable) transform
\* expression and 0 otherwise.
C25_TransformFlag ==
    \A r \in Reqs :
        /\ (http[r] # None /\ http[r][1].status = 200) => Emitted(r)
        /\ Emitted(r) =>
              usage[r][1].num_fn = IF Undecoded(input[r].query_fn) THEN 0 ELSE 1

C25_Witness ==
    \E r \in Reqs :
        /\ input[r].query_fn = Some(Encoded(<<"a">>))
        /\ http[r] # None
        /\ http[r][1].status = 200
        /\ usage[r][1].num_fn = 1

\* C26: request_body of the UsageRecord is the backward phase's final SQL text
\* (filters added, ORDER BY descending injected or the fallback), not the forward
\* phase's, and min_ts / max_ts are the bounds of the dispatched window, the
\* pivot - 15 minutes and + 15 minutes wherever these fit the i64 range.
C26_BackwardSqlRecorded ==
    \A r \in Reqs :
        Emitted(r) =>
            /\ Len(calls[r]) = 2
            /\ calls[r][2].phase = "backward"
            /\ usage[r][1].request_body = <<calls[r][2].query.sql>>
            /\ calls[r][2].query.sql.base = local[r].around_sql.base
            /\ calls[r][2].query.sql.filters = local[r].around_sql.filters
            /\ calls[r][2].query.sql.order \in {"desc", "none"}
            /\ calls[r][1].query.sql # calls[r][2].query.sql =>
                  usage[r][1].request_body # <<calls[r][1].query.sql>>
            /\ usage[r][1].min_ts = <<calls[r][1].query.start_time>>
            /\ usage[r][1].max_ts = <<calls[r][2].query.end_time>>
            /\ ~Overflows(local[r].around_key) =>
                  /\ usage[r][1].min_ts = <<local[r].around_key - 900000000>>
                  /\ usage[r][1].max_ts = <<local[r].around_key + 900000000>>

C26_Witness ==
    \E r \in Reqs :
        /\ Emitted(r)
        /\ calls[r][1].query.sql.order = "asc"
        /\ usage[r][1].request_body =
              <<[base |-> "custom", filters |-> {<<"host", "h1">>}, order |-> "desc"]>>
        /\ usage[r][1].min_ts = <<100000500>>
        /\ usage[r][1].max_ts = <<1900000500>>

(* ------------------------------ the window ----------------------------- *)
\* C28: for every pivot key of the i64 range, from the query string or the
\* payload, the window's boundaries are computed without wrap-around:
\* pivot - 900000000 <= pivot <= pivot + 900000000, and both dispatched queries
\* have start_time <= end_time.
C28_NoWrapAround ==
    \A r \in Reqs :
        /\ pc[r] # "panicked"
        /\ \A i \in DOMAIN calls[r] :
              /\ calls[r][i].query.start_time <= calls[r][i].query.end_time
              /\ AroundStartTime(local[r].around_key) <= local[r].around_key
              /\ local[r].around_key <= AroundEndTime(local[r].around_key)

(* ------------------------------- liveness ------------------------------ *)
NeverCancelled == \A r \in Reqs : pc[r] # "cancelled"

\* C27: if every engine call returns and no request is cancelled, every request
\* that waits for the gate acquires it and then answers, with the throttle on
\* and whatever the other requests do.
C27_EveryWaiterAnswers ==
    []NeverCancelled =>
        \A r \in Reqs :
            /\ (pc[r] = "lock") ~> Gated(r)
            /\ (pc[r] = "lock") ~> (pc[r] = "done" /\ http[r] # None)

C27_Witness ==
    /\ env.feature_query_queue_enabled
    /\ \A r \in Reqs :
          /\ pc[r] = "done"
          /\ http[r] # None
    /\ \E r \in Reqs : http[r][1].status = 200

(* --------------------------- the pipeline table ------------------------ *)
\* the step in which a put or an update returns an error
FailedWrite ==
    /\ tx # None
    /\ tx[1].op \in {"put", "update"}
    /\ tx' = None
    /\ ~last'[1].result.ok

\* C29: a put or an update that returns an error, whether its statement or its
\* commit failed, leaves the pipeline table as it was when the call began and
\* leaves no transaction open.
C29_FailedWriteChangesNothing == [][FailedWrite => table' = tx[1].before]_vars

C29_Witness ==
    /\ last # None
    /\ last[1].op = "update"
    /\ ~last[1].result.ok
    /\ last[1].phase = "commit"
    /\ last[1].dirty
    /\ tx = None

\* the step in which a put of an id that has a row returns
PutOfExisting ==
    /\ tx # None
    /\ tx[1].op = "put"
    /\ tx[1].before[tx[1].id] # None
    /\ tx' = None

\* C30: a put of an id that already has a row leaves the row as it was, and
\* returns Ok when neither the statement nor the commit fails; so get_by_id
\* returns the pipeline of the first put of that id that returned Ok, as long
\* as no update of the id has been committed since.
C30_InsertIfAbsent ==
    /\ [][PutOfExisting => table' = table]_vars
    /\ [](\A id \in PipelineIds :
            (first_put[id].pipeline # None /\ ~first_put[id].intervened) =>
                get_by_id(table, id) = Ok(first_put[id].pipeline))

C30_Witness ==
    /\ last # None
    /\ last[1].op = "put"
    /\ last[1].result = Ok(None)
    /\ ~last[1].dirty
    /\ first_put[last[1].id].pipeline # None
    /\ ~first_put[last[1].id].intervened
    /\ first_put[last[1].id].pipeline # last[1].pipeline
    /\ get_by_id(table, last[1].id) = Ok(first_put[last[1].id].pipeline)

\* the step in which a delete returns
DeleteReturns ==
    /\ tx # None
    /\ tx[1].op = "delete"
    /\ tx' = None

\* C31: a delete that returns Ok had its row stored, returns the pipeline
\* get_by_id read before the call, removes that row and no other, and get_by_id
\* of the id then fails with KeyNotExists(id); a delete that returns an error,
\* as every delete of an id that is not stored does, leaves the table unchanged.
C31_DeleteRemovesOneRow ==
    [][DeleteReturns =>
          LET deleted == tx[1].id
          IN  IF last'[1].result.ok
              THEN /\ tx[1].before[deleted] # None
                   /\ Ok(last'[1].result.value) = get_by_id(tx[1].before, deleted)
                   /\ get_by_id(table', deleted) = Err(KeyNotExists(deleted))
                   /\ \A id \in PipelineIds \ {deleted} : table'[id] = tx[1].before[id]
              ELSE table' = tx[1].before
       ]_vars

C31_Witness ==
    /\ last # None
    /\ last[1].op = "delete"
    /\ last[1].result.ok
    /\ last[1].result.value # None
    /\ last[1].result.value[1].source = Scheduled("d1")
    /\ get_by_id(table, last[1].id) = Err(KeyNotExists(last[1].id))
    /\ \E id \in PipelineIds : table[id] # None
    /\ tx = None

\* the step in which a writing operation takes CLIENT_RW
TakesLock == ~client_rw /\ client_rw'

\* C32: a call of a writing operation is in progress exactly while a guard of
\* CLIENT_RW is alive: the lock is held from the first statement to the return,
\* no operation takes it while another is in progress, and it is free again
\* once the call has returned, with Ok or with an error.
C32_WritersSerialized ==
    /\ [](tx # None <=> client_rw)
    /\ [][TakesLock => tx = None]_vars

C32_Witness ==
    /\ ~client_rw
    /\ tx = None
    /\ last # None
    /\ last[1].op = "create_table_index"
    /\ last[1].phase = "ddl2"
    /\ ~last[1].result.ok
    /\ schema.indexes = IndexSet(1)
    /\ table # NoRows

\* the step in which an update returns
UpdateReturns ==
    /\ tx # None
    /\ tx[1].op = "update"
    /\ tx' = None

\* C33: an update of an id that is not stored leaves the table as it was and
\* creates no row, and returns Ok when neither its statement nor its commit
\* fails; an update of a stored id leaves every other row as it was, and when
\* it returns Ok get_by_id of the id reads the pipeline it was given.
C33_UpdateTouchesOneRow ==
    [][UpdateReturns =>
          LET updated == tx[1].id
          IN  /\ tx[1].before[updated] = None => table' = tx[1].before
              /\ \A id \in PipelineIds \ {updated} : table'[id] = tx[1].before[id]
              /\ (tx[1].before[updated] # None /\ last'[1].result.ok) =>
                    get_by_id(table', updated) = Ok(tx[1].pipeline)
              /\ (tx[1].before[updated] # None /\ ~last'[1].result.ok) =>
                    table' = tx[1].before
       ]_vars

C33_Witness ==
    /\ last # None
    /\ last[1].op = "update"
    /\ last[1].phase = "commit"
    /\ last[1].result = Ok(None)
    /\ table[last[1].id] = None
    /\ \E id \in PipelineIds : table[id] # None
    /\ tx = None

\* the pipeline a query returned is the one stored under its id, and its source
\* is Realtime with these stream parameters
StoredRealtime(result, stream_params) ==
    result.ok =>
        /\ Ok(result.value) = get_by_id(table, result.value[1].id)
        /\ result.value[1].source = Realtime(stream_params)

\* a row that was realtime for stream_params and was updated to scheduled
WasRealtime(pipeline_id, stream_params) ==
    /\ table[pipeline_id] # None
    /\ table[pipeline_id][1].source_type = "scheduled"
    /\ table[pipeline_id][1].stream_name = Some(stream_params)

\* C34: whatever puts, updates and deletes were committed, get_by_stream(s) and
\* get_with_same_source_stream of a Realtime(s) pipeline return only a pipeline
\* stored with source Realtime(s), never a row updated from Realtime(s) to
\* Scheduled, and get_with_same_source_stream of a Scheduled pipeline returns
\* KeyNotExists.
C34_OnlyRealtimeOfStream ==
    /\ \A s \in StreamParams :
          \A result \in get_by_stream(table, s) :
              /\ StoredRealtime(result, s)
              /\ result.ok => ~WasRealtime(result.value[1].id, s)
    /\ \A pipeline \in Pipelines :
          IF pipeline.source.source_type = "scheduled"
          THEN get_with_same_source_stream(table, pipeline) = {Err(KeyNotExists(""))}
          ELSE \A result \in get_with_same_source_stream(table, pipeline) :
                  /\ StoredRealtime(result, pipeline.source.params)
                  /\ result.ok =>
                        ~WasRealtime(result.value[1].id, pipeline.source.params)

C34_Witness ==
    /\ WasRealtime("p1", "s2")
    /\ table["p2"] # None
    /\ \E result \in get_by_stream(table, "s2") :
          result.ok /\ result.value[1].id = "p2"
    /\ \A result \in get_with_same_source_stream(table, FromRow(table["p2"][1])) :
          result.ok /\ result.value[1].id = "p2"
    /\ get_by_stream(table, "s1") = {Err("RowNotFound")}
    /\ tx = None

(* ----------------------------- the CLI export -------------------------- *)
\* the step in which operator returns
ExportReturns == export.pc # "returned" /\ export'.pc = "returned"

\* the file operator names holds all of the hits
HitsWritten(state, files) ==
    \E f \in files :
        /\ f.dir = state.c.data
        /\ f.written = "all"
        /\ state.res = Some(f.hits)

\* C35: operator returns Ok(true) only if the search returned Ok, the file type
\* is "json" and a file of the data directory holds the hits; if the search
\* type is invalid, the search fails or the file type is not "json", it returns
\* Ok(false) and the directories and files are those of before the call.
C35_ExportOutcome ==
    [][ExportReturns =>
          /\ export'.result = Ok(Some(TRUE)) =>
                /\ export'.res # None
                /\ export'.c.file_type = "json"
                /\ export'.c.data \in fs'.dirs
                /\ HitsWritten(export', fs'.files)
          /\ (~export'.search_type.ok \/ export'.res = None
                  \/ export'.c.file_type # "json") =>
                /\ export'.result = Ok(Some(FALSE))
                /\ fs' = fs
       ]_vars

C35_Witness ==
    /\ export.pc = "returned"
    /\ export.result = Ok(Some(TRUE))
    /\ export.c = [file_type |-> "json", data |-> "data/out"]
    /\ export.res # None
    /\ export.res[1] # <<>>
    /\ HitsWritten(export, fs.files)
    /\ fs.dirs = {"data", "data/out"}

=============================================================================
